---------------------------- MODULE Spec2Model ----------------------------
(***************************************************************************)
(* tredis: the event/ingestion architecture of the terminal dashboard.     *)
(*                                                                         *)
(* The update loop of main() (src/main.rs 207-1231) is one process: it     *)
(* handles at most one key, then drains the channel rx with try_recv until *)
(* it is empty.  The tasks it spawns (connection task, monitor reader,     *)
(* pubsub subscriber, stream consumer) run concurrently with it and only   *)
(* send events on the channel.  Strings are sequences of one-character     *)
(* strings, so that to_lowercase and contains are computed, not assumed.   *)
(***************************************************************************)
EXTENDS Naturals, Integers, Sequences, FiniteSets, TLC

(* ------------------------------ bounds --------------------------------- *)
\* tasks spawned in one run of the program
MaxTasks == 3
\* events the collectors of one run read from their connections (small runs)
MaxEvents == 2
\* depth the cursor stack may reach
MaxStack == 2
\* characters the user types into the filter / the subscribe input
MaxInput == 1
\* characters typed into the key filter
MaxFilter == 2
\* events a collector reads beyond the capacity of the channel or of a buffer
MaxBurst == 2
\* effective forward steps counted by the pagination history
MaxSteps == 2
\* XREADGROUP calls one stream consumer makes
MaxPolls == 3
\* records one XREADGROUP reply holds (the code asks for COUNT 10)
MaxBatch == 2
\* entries the monitor collector reads while the selection is followed
MaxEntries == 4
\* servers the configuration holds
MaxServers == 3

(* ------------------------- program constants --------------------------- *)
\* mpsc::channel(100)
BusCapacity == 100
\* "Keep only last 1000 entries"
RingCapacity == 1000
\* PaginationState::default().page_size
page_size == 100

(* ------------------------------ strings -------------------------------- *)
\* char::to_lowercase on the letters of the model's alphabet
LowerChar(c) ==
    IF c = "A" THEN "a" ELSE IF c = "B" THEN "b" ELSE IF c = "C" THEN "c" ELSE c

\* str::to_lowercase
to_lowercase(s) == [i \in 1..Len(s) |-> LowerChar(s[i])]

RECURSIVE StartsAt(_, _, _, _)
\* the pattern p matches s at offset i, compared from position j of p on
StartsAt(s, p, i, j) ==
    IF j > Len(p) THEN TRUE
    ELSE IF i + j > Len(s) THEN FALSE
    ELSE IF s[i + j] # p[j] THEN FALSE
    ELSE StartsAt(s, p, i, j + 1)

RECURSIVE ContainsFrom(_, _, _)
ContainsFrom(s, p, i) ==
    IF i + Len(p) > Len(s) THEN FALSE
    ELSE IF StartsAt(s, p, i, 1) THEN TRUE
    ELSE ContainsFrom(s, p, i + 1)

\* str::contains: scan the offsets left to right
contains(s, p) == ContainsFrom(s, p, 0)

\* String::pop
pop(s) == IF s = <<>> THEN s ELSE SubSeq(s, 1, Len(s) - 1)

\* str::starts_with(char)
starts_with(s, c) == s # <<>> /\ s[1] = c

RECURSIVE trim_start_matches(_, _)
trim_start_matches(s, cs) ==
    IF s # <<>> /\ s[1] \in cs THEN trim_start_matches(Tail(s), cs) ELSE s

RECURSIVE trim_end_matches(_, _)
trim_end_matches(s, cs) ==
    IF s # <<>> /\ s[Len(s)] \in cs
    THEN trim_end_matches(SubSeq(s, 1, Len(s) - 1), cs) ELSE s

\* str::trim_matches: the characters of cs are removed at both ends
trim_matches(s, cs) == trim_end_matches(trim_start_matches(s, cs), cs)

\* str::trim: white space removed at both ends
trim(s) == trim_matches(s, {" "})

RECURSIVE find(_, _, _)
\* the position of the first c in s at or after i, 0 if there is none
find(s, c, i) ==
    IF i > Len(s) THEN 0 ELSE IF s[i] = c THEN i ELSE find(s, c, i + 1)

RECURSIVE rfind(_, _, _)
\* the position of the last c in s at or before i, 0 if there is none
rfind(s, c, i) ==
    IF i < 1 THEN 0 ELSE IF s[i] = c THEN i ELSE rfind(s, c, i - 1)

\* str::starts_with(&str)
starts_with_str(s, p) == StartsAt(s, p, 0, 1)

RECURSIVE splitn(_, _, _)
\* str::splitn(n, c): at most n parts, the last one the rest of the string
splitn(s, n, c) ==
    LET i == find(s, c, 1)
    IN  IF n <= 1 \/ i = 0 THEN <<s>>
        ELSE <<SubSeq(s, 1, i - 1)>> \o splitn(SubSeq(s, i + 1, Len(s)), n - 1, c)

Digits == {"0", "1"}

\* str::parse::<f64> is Ok, on the strings of the model's alphabet: digits
\* with at most one point
is_f64(s) ==
    /\ \A i \in 1..Len(s) : s[i] \in Digits \cup {"."}
    /\ \E i \in 1..Len(s) : s[i] \in Digits
    /\ Cardinality({i \in 1..Len(s) : s[i] = "."}) <= 1

\* the timestamp of parse_monitor_output: the date of the seconds (written
\* "@" and the digits before the point) when the text is a number, the text
\* itself when it is not
format_timestamp(raw) ==
    IF is_f64(raw)
    THEN LET i == find(raw, ".", 1)
         IN  <<"@">> \o (IF i = 0 THEN raw ELSE SubSeq(raw, 1, i - 1))
    ELSE raw

\* "unknown"
Unknown == <<"u", "n", "k", "n", "o", "w", "n">>

(* ------------------------------ the URIs ------------------------------- *)
RedisScheme == <<"r", "e", "d", "i", "s", ":", "/", "/">>
RedissScheme == <<"r", "e", "d", "i", "s", "s", ":", "/", "/">>
\* "****"
Stars == <<"*", "*", "*", "*">>

\* the password App::set_connection_from_uri takes from the URI u: None when
\* there is no '@' after the scheme, else the text after the first ':' of the
\* part before the last '@', or that whole part when it has no ':'
uri_password(u) ==
    LET t == trim(u)
        rest == IF starts_with_str(t, RedissScheme)
                THEN SubSeq(t, Len(RedissScheme) + 1, Len(t))
                ELSE IF starts_with_str(t, RedisScheme)
                THEN SubSeq(t, Len(RedisScheme) + 1, Len(t))
                ELSE t
        at_pos == rfind(rest, "@", Len(rest))
        auth == SubSeq(rest, 1, at_pos - 1)
        colon_pos == find(auth, ":", 1)
    IN  IF at_pos = 0 THEN <<>>
        ELSE IF colon_pos # 0 THEN <<SubSeq(auth, colon_pos + 1, Len(auth))>>
        ELSE <<auth>>

\* a faulty mask_uri, used to test the masking: the auth part ends at the
\* first '@'
mask_uri_first_at(u) ==
    LET at_pos == find(u, "@", 1)
        prefix_end == IF starts_with_str(u, RedissScheme) THEN 9
                      ELSE IF starts_with_str(u, RedisScheme) THEN 8
                      ELSE 0
        scheme == SubSeq(u, 1, prefix_end)
        auth_part == SubSeq(u, prefix_end + 1, at_pos - 1)
        host_part == SubSeq(u, at_pos, Len(u))
        colon_pos == find(auth_part, ":", 1)
        masked_auth == IF colon_pos # 0
                       THEN SubSeq(auth_part, 1, colon_pos - 1) \o <<":">> \o Stars
                       ELSE Stars
    IN  IF at_pos # 0 THEN scheme \o masked_auth \o host_part ELSE u

\* mask_uri: positions are counted from 1, and 0 stands for None
mask_uri(u) ==
    LET at_pos == rfind(u, "@", Len(u))
        prefix_end == IF starts_with_str(u, RedissScheme) THEN 9
                      ELSE IF starts_with_str(u, RedisScheme) THEN 8
                      ELSE 0
        scheme == SubSeq(u, 1, prefix_end)
        auth_part == SubSeq(u, prefix_end + 1, at_pos - 1)
        host_part == SubSeq(u, at_pos, Len(u))
        colon_pos == find(auth_part, ":", 1)
        masked_auth == IF colon_pos # 0
                       THEN SubSeq(auth_part, 1, colon_pos - 1) \o <<":">> \o Stars
                       ELSE Stars
    IN  IF at_pos # 0 THEN scheme \o masked_auth \o host_part ELSE u

\* the URI "scheme[user:]password@host"
AuthUri(scheme, user, password, host) ==
    scheme \o (IF user = <<>> THEN <<>> ELSE user[1] \o <<":">>)
           \o password \o <<"@">> \o host

\* the parts the URIs of a configuration are made of
Schemes == {RedisScheme, RedissScheme, <<>>}
Users == {<<>>, << <<>> >>, << <<"u">> >>}
Passwords == {<<>>, <<"p">>, <<"q", "@", "r">>, <<"s", ":", "t">>, <<"v", "w">>}
Hosts == {<<"h">>, <<"h", ":", "1", "/", "0">>}

\* the parts of two URIs that differ in the password only, the password being
\* what set_connection_from_uri takes for the password in both
UriParts ==
    {x \in [scheme : Schemes, user : Users, host : Hosts,
            pw1 : Passwords, pw2 : Passwords] :
        /\ x.pw1 # x.pw2
        /\ uri_password(AuthUri(x.scheme, x.user, x.pw1, x.host)) = <<x.pw1>>
        /\ uri_password(AuthUri(x.scheme, x.user, x.pw2, x.host)) = <<x.pw2>>}

\* two URIs that differ in the password only, or one URI without auth part
UriInputs ==
    {<<AuthUri(x.scheme, x.user, x.pw1, x.host),
       AuthUri(x.scheme, x.user, x.pw2, x.host)>> : x \in UriParts}
    \cup {<<sc \o h>> : sc \in Schemes, h \in Hosts}

(* --------------------------- the environment --------------------------- *)
\* the resources of App::new, by command; "clients", "config", "slowlog" and
\* "acl" are left out: each is handled as "info" is, by one request that
\* fills a list the model does not keep
Resources ==
    {"servers", "keys", "streams", "pubsub", "monitor", "info"}

\* characters a user types
Typed == {"a", "B", "c"}

\* keys the server may hold
KeyAb == <<"A", "b">>
KeyBa == <<"b", "a">>
KeyBB == <<"B", "B">>

\* a server with no key, one stream and no subscribed channel: every SCAN
\* returns (0, []), DBSIZE 0 (totals are the replies of DBSIZE after
\* unwrap_or(0)), PUBSUB CHANNELS returns []
QuietDb ==
    [pages |-> { <<>> }, cursors |-> {0}, totals |-> {0},
     streams |-> { <<"x">> }, channels |-> { <<>> }]

\* a server with keys: pages are what a SCAN may find before the MATCH pattern
\* is applied, cursors what it may return, totals the replies of DBSIZE,
\* channels the lists PUBSUB CHANNELS / NUMSUB may give
BusyDb ==
    [pages |-> { <<>>, <<KeyAb, KeyBB, KeyBa>> },
     cursors |-> {0, 1}, totals |-> {3},
     streams |-> { <<>> },
     channels |-> { << [name |-> "a", subscribers |-> 1] >> }]

\* a server whose streams come and go: KEYS * with TYPE stream finds two
\* streams, one, or none
StreamsDb ==
    [pages |-> { <<>> }, cursors |-> {0}, totals |-> {2},
     streams |-> { <<"x", "y">>, <<"x">>, <<>> }, channels |-> { <<>> }]

\* the servers of the configuration file when the program starts
InitServers ==
    << [name |-> "s1", info |-> FALSE], [name |-> "s2", info |-> TRUE] >>

NoServer == "none"

VARIABLES
    \* App
    mode, active_resource, should_quit, connection, current_server, servers,
    selected_server_index,
    all_keys, scan_result, filter_text, filter_active, selected_key_index,
    info_search_active, pending_action,
    cursor, next_cursor, cursor_stack, total_keys,
    monitor_entries, selected_monitor_index, monitor_scroll, monitor_active,
    monitor_task,
    streams, selected_stream_index, stream_messages, stream_active, stream_task,
    pubsub_subscribe_mode, pubsub_subscribe_channel, pubsub_subscribe_input,
    pubsub_messages, pubsub_task, pubsub_channels,
    \* the channel (tx, rx), the spawned tasks, the position of the loop
    rx, tasks, pc,
    \* the data the server answers from
    db,
    \* the URIs given to mask_uri and the texts it returned for them
    uri, masked_uri,
    \* requests the last step of the update loop sent on the primary connection
    io,
    \* history: events received, accepted entries per ring, pagination steps,
    \* whether an event was sent while the current drain pass was running
    handled, accepted, steps, run, refilled

serverVars == <<connection, current_server, servers, selected_server_index>>
keyVars == <<all_keys, scan_result, filter_text, filter_active, selected_key_index>>
pageVars == <<cursor, next_cursor, cursor_stack, total_keys>>
monitorVars ==
    <<monitor_entries, selected_monitor_index, monitor_scroll, monitor_active,
      monitor_task>>
streamVars ==
    <<streams, selected_stream_index, stream_messages, stream_active, stream_task>>
pubsubVars ==
    <<pubsub_subscribe_mode, pubsub_subscribe_channel, pubsub_subscribe_input,
      pubsub_messages, pubsub_task, pubsub_channels>>
\* every field of App
appVars ==
    <<mode, active_resource, should_quit, serverVars, keyVars,
      info_search_active, pending_action, pageVars, monitorVars, streamVars,
      pubsubVars>>
histVars == <<handled, accepted, steps, run, refilled>>
vars == <<appVars, rx, tasks, pc, db, uri, masked_uri, io, histVars>>


(* ------------------------ the monitor line parser ---------------------- *)
\* model::MonitorEntry
MonitorEntry(timestamp, mdb, client, command) ==
    [timestamp |-> timestamp, db |-> mdb, client |-> client,
     command |-> command]

\* parse_monitor_output: Option<MonitorEntry>, None being <<>>
parse_monitor_output(ln) ==
    IF ln = <<>> THEN <<>>
    ELSE LET parts == splitn(ln, 3, " ")
         IN  IF Len(parts) < 3 THEN <<>>
             ELSE LET client_db == trim_matches(parts[2], {"[", "]"})
                      client_parts == splitn(client_db, 2, " ")
                  IN  << MonitorEntry(
                             format_timestamp(parts[1]),
                             client_parts[1],
                             IF Len(client_parts) >= 2 THEN client_parts[2]
                             ELSE Unknown,
                             parts[3]) >>

\* what the monitor task does with a line read from the socket: trim, the
\* '+' removed, parse_monitor_output; <<>> when no event is to be sent
monitor_line_entry(l) ==
    LET tl == trim(l)
    IN  IF starts_with(tl, "+") THEN parse_monitor_output(Tail(tl)) ELSE <<>>

\* the line "+<stamp> [<db> <client>] <command>"
MonitorLine(stamp, mdb, client, command) ==
    <<"+">> \o stamp \o <<" ", "[">> \o mdb \o <<" ">> \o client
    \o <<"]", " ">> \o command

\* the pieces of the lines the server may send
Stamps == { <<"1", ".", "0">>, <<"x">> }
Dbs == { <<"0">> }
Clients == { <<"c", ":", "1">> }
Commands == { <<"S">>, <<"S", " ", "f">> }
Descriptors ==
    { <<"[">> \o d \o <<" ">> \o c \o <<"]">> : d \in Dbs, c \in Clients }
    \cup { <<"[">> \o d \o <<"]">> : d \in Dbs }
    \cup Dbs
    \cup { d \o <<" ">> \o c : d \in Dbs, c \in Clients }

\* the lines a monitor connection may deliver, with and without the leading
\* '+', with one, two and three or more fields
MonitorLines ==
    LET Body ==
            Stamps
            \cup { st \o <<" ">> \o d : st \in Stamps, d \in Descriptors }
            \cup { st \o <<" ">> \o d \o <<" ">> \o c :
                      st \in Stamps, d \in Descriptors, c \in Commands }
    IN  { <<>>, <<"+">> } \cup Body \cup { <<"+">> \o b : b \in Body }

(* ------------------------------ helpers -------------------------------- *)
\* Vec::insert(0, x)
insert0(v, x) == <<x>> \o v

\* Vec::pop (the last element is dropped)
vec_pop(v) == IF v = <<>> THEN v ELSE SubSeq(v, 1, Len(v) - 1)

\* a faulty buffer, used to test the buffer property: on overflow the entry
\* just inserted is the one dropped
ring_insert_keep_oldest(v, x) ==
    LET w == insert0(v, x)
    IN  IF Len(w) > RingCapacity THEN Tail(w) ELSE w

\* "insert(0, entry); if len() > 1000 { pop(); }" of the three event handlers
ring_insert(v, x) ==
    LET w == insert0(v, x)
    IN  IF Len(w) > RingCapacity THEN vec_pop(w) ELSE w

\* Option::None of a task handle (handles are the positions 1.. in tasks)
None == 0

(* ------------------------------- tasks --------------------------------- *)
Collectors == {"monitor", "pubsub", "stream"}

\* a task as tokio::spawn creates it: running, nothing read, nothing sent;
\* line is the line the monitor reader read last, and of the stream consumer
\* at is its position, grp the result of XGROUP CREATE, polls the XREADGROUP
\* calls made, batch the records of the last reply still to send, acked the
\* XACK calls made
Task(kind, script, arg) ==
    [kind |-> kind, st |-> "run", pend |-> FALSE, sent |-> 0,
     script |-> script, arg |-> arg, cancelled |-> FALSE,
     line |-> <<>>, at |-> "start", grp |-> "none", polls |-> 0, batch |-> 0,
     acked |-> 0]

TaskIds == 1..Len(tasks)

\* arg is the text an event carries, a sequence (empty when it carries none)
AppEvent(type, src, n, arg) == [type |-> type, src |-> src, n |-> n, arg |-> arg]

\* the events a connection task sends, in order (main.rs 181-185, 581-601)
ConnScript(detect, name) ==
    (IF detect
     THEN << [type |-> "Progress", arg |-> <<"detecting">>],
             [type |-> "ServerInfoDetected", arg |-> <<name>>] >>
     ELSE <<>>)
    \o << [type |-> "Progress", arg |-> <<"connecting">>],
          [type |-> "Connect", arg |-> <<>>] >>

\* detection was asked for and failed: only the progress message is sent
ConnScriptNoInfo ==
    << [type |-> "Progress", arg |-> <<"detecting">>],
       [type |-> "Progress", arg |-> <<"connecting">>],
       [type |-> "Connect", arg |-> <<>>] >>

\* JoinHandle::abort: a task that is suspended is cancelled at once; one that is
\* being polled with an event in hand and room on the channel may still
\* complete that send before the cancellation takes effect
AbortOutcomes(ts, h) ==
    IF h = None \/ ts[h].st # "run" THEN {ts}
    ELSE {[ts EXCEPT ![h].st = "end", ![h].pend = FALSE, ![h].cancelled = TRUE]}
         \cup (IF ts[h].pend /\ Len(rx) < BusCapacity
               THEN {[ts EXCEPT ![h].st = "abort", ![h].cancelled = TRUE]}
               ELSE {})

\* the tasks that run: spawned, neither cancelled nor returned
Live(kind) == {t \in TaskIds : tasks[t].kind = kind /\ tasks[t].st = "run"}

\* a faulty sender, used to test the channel property: on a full channel the
\* send completes and the event is gone
send_or_drop(q, e, q2) ==
    q2 = IF Len(q) < BusCapacity THEN Append(q, e) ELSE q

\* mpsc::Sender::send: completes only when the channel has room
send(q, e, q2) == Len(q) < BusCapacity /\ q2 = Append(q, e)

\* a faulty receiver, used to test the ordering property: the newest event
try_recv_newest(q) == q[Len(q)]

\* mpsc::Receiver::try_recv: the oldest event
try_recv(q) == Head(q)

\* the channel after try_recv
after_recv(q) == Tail(q)

RECURSIVE SumSent(_, _)
SumSent(ts, i) ==
    IF i = 0 THEN 0
    ELSE SumSent(ts, i - 1)
         + (IF ts[i].kind \in Collectors
            THEN ts[i].sent + (IF ts[i].pend THEN 1 ELSE 0)
            ELSE 0)

\* events the collectors have read so far
EventsRead == SumSent(tasks, Len(tasks))


(* ----------------------- keys: fetch and filter ------------------------ *)
\* Option<String>: None is <<>>, Some(s) is <<s>>
Some(s) == <<s>>

\* a faulty filter, used to test the filter property: it compares the key and
\* the text as they are
apply_filter_exact(keys, ftext) ==
    IF ftext = <<>> THEN keys
    ELSE LET Keep(k) == contains(k, ftext)
         IN  SelectSeq(keys, Keep)

\* the filter of App::apply_filter: case-insensitive substring on the key
apply_filter_scan(keys, ftext) ==
    IF ftext = <<>> THEN keys
    ELSE LET filter == to_lowercase(ftext)
             Keep(k) == contains(to_lowercase(k), filter)
         IN  SelectSeq(keys, Keep)

\* the clamp of selected_key_index at the end of App::apply_filter
apply_filter_index(scan, idx) ==
    IF idx >= Len(scan)
    THEN (IF scan # <<>> THEN Len(scan) - 1 ELSE 0)
    ELSE idx

\* what the server returns for SCAN cursor [MATCH *p*] COUNT n: a cursor and
\* the keys of some page that match the pattern (the glob is case-sensitive)
ScanReplies(pattern) ==
    LET Match(k) == pattern = <<>> \/ contains(k, pattern[1])
    IN  {[next |-> c, keys |-> SelectSeq(pg, Match)] :
            c \in db.cursors, pg \in db.pages}

ScanRequest(cur, pattern) ==
    [cmd |-> "SCAN", cursor |-> cur, pattern |-> pattern, count |-> page_size]

\* App::fetch_keys with self.pagination.cursor = cur and self.filter_text =
\* ftext: every way it can end, as the values it leaves in App
fetch_keys(conn, cur, pattern, ftext, idx) ==
    IF ~conn
    THEN {[ok |-> TRUE, total_keys |-> total_keys, next_cursor |-> next_cursor,
           all_keys |-> all_keys, scan_result |-> scan_result,
           selected_key_index |-> idx, io |-> <<>>]}
    ELSE LET reqs == <<[cmd |-> "DBSIZE"], ScanRequest(cur, pattern)>>
         IN  {[ok |-> FALSE, total_keys |-> t, next_cursor |-> next_cursor,
               all_keys |-> all_keys, scan_result |-> scan_result,
               selected_key_index |-> idx, io |-> reqs] : t \in db.totals}
             \cup
             {[ok |-> TRUE, total_keys |-> t, next_cursor |-> r.next,
               all_keys |-> r.keys,
               scan_result |-> apply_filter_scan(r.keys, ftext),
               selected_key_index |->
                   apply_filter_index(apply_filter_scan(r.keys, ftext), idx),
               io |-> reqs] : t \in db.totals, r \in ScanReplies(pattern)}

\* the fields fetch_keys writes take the values of outcome o
Fetched(o) ==
    /\ total_keys' = o.total_keys
    /\ next_cursor' = o.next_cursor
    /\ all_keys' = o.all_keys
    /\ scan_result' = o.scan_result
    /\ selected_key_index' = o.selected_key_index
    /\ io' = o.io

\* "if self.filter_text.is_empty() { None } else { Some(...) }"
page_pattern(ftext) == IF ftext = <<>> THEN <<>> ELSE Some(ftext)

(* -------------------------------- Init --------------------------------- *)
\* history of the page turns: for each of the latest consecutive next_page
\* calls the cursor before it and whether it advanced or found the stack
\* empty, and the number p of prev_page calls made right after them
NoRun == [starts |-> <<>>, ok |-> <<>>, p |-> 0]
NoSteps == [fwd |-> 0, back |-> 0]

\* main() up to the loop, with a server configured or given on the command
\* line: App::new, current_server set, the connection task spawned
InitApp ==
    /\ mode = "Splash"
    /\ active_resource = "keys"
    /\ should_quit = FALSE
    /\ connection = FALSE
    /\ servers = InitServers
    /\ current_server \in {"cli", InitServers[1].name}
    /\ selected_server_index = 0
    /\ all_keys = <<>> /\ scan_result = <<>> /\ filter_text = <<>>
    /\ filter_active = FALSE /\ selected_key_index = 0
    /\ info_search_active = FALSE
    /\ pending_action = <<>>
    /\ cursor = 0 /\ next_cursor = 0 /\ cursor_stack = <<>> /\ total_keys = 0
    /\ monitor_entries = <<>> /\ selected_monitor_index = 0 /\ monitor_scroll = 0
    /\ monitor_active = FALSE /\ monitor_task = None
    /\ streams = <<>> /\ selected_stream_index = 0 /\ stream_messages = <<>>
    /\ stream_active = FALSE /\ stream_task = None
    /\ pubsub_subscribe_mode = FALSE /\ pubsub_subscribe_channel = <<>>
    /\ pubsub_subscribe_input = <<>> /\ pubsub_messages = <<>>
    /\ pubsub_task = None /\ pubsub_channels = <<>>
    /\ rx = <<>>
    /\ tasks = <<Task("conn", ConnScript(FALSE, ""), <<>>)>>
    /\ pc = "input"
    /\ io = <<>>
    /\ handled = <<0>>
    /\ accepted = [monitor |-> <<>>, pubsub |-> <<>>, stream |-> <<>>]
    /\ steps = NoSteps
    /\ run = NoRun
    /\ refilled = FALSE

\* the program started against a server that holds no key
Init == InitApp /\ db = QuietDb /\ uri = <<>> /\ masked_uri = <<>>

\* main() up to the loop with no server configured and none given on the
\* command line: the server dialog is shown and no task is spawned
InitSetup ==
    /\ mode = "ServerDialog"
    /\ active_resource = "keys"
    /\ should_quit = FALSE
    /\ connection = FALSE
    /\ servers = <<>>
    /\ current_server = NoServer
    /\ selected_server_index = 0
    /\ all_keys = <<>> /\ scan_result = <<>> /\ filter_text = <<>>
    /\ filter_active = FALSE /\ selected_key_index = 0
    /\ info_search_active = FALSE
    /\ pending_action = <<>>
    /\ cursor = 0 /\ next_cursor = 0 /\ cursor_stack = <<>> /\ total_keys = 0
    /\ monitor_entries = <<>> /\ selected_monitor_index = 0
    /\ monitor_scroll = 0
    /\ monitor_active = FALSE /\ monitor_task = None
    /\ streams = <<>> /\ selected_stream_index = 0 /\ stream_messages = <<>>
    /\ stream_active = FALSE /\ stream_task = None
    /\ pubsub_subscribe_mode = FALSE /\ pubsub_subscribe_channel = <<>>
    /\ pubsub_subscribe_input = <<>> /\ pubsub_messages = <<>>
    /\ pubsub_task = None /\ pubsub_channels = <<>>
    /\ rx = <<>>
    /\ tasks = <<>>
    /\ pc = "input"
    /\ io = <<>>
    /\ handled = <<>>
    /\ accepted = [monitor |-> <<>>, pubsub |-> <<>>, stream |-> <<>>]
    /\ steps = NoSteps
    /\ run = NoRun
    /\ refilled = FALSE
    /\ db = BusyDb /\ uri = <<>> /\ masked_uri = <<>>

\* the program started against a server that holds keys
InitKeys ==
    /\ InitApp /\ db = BusyDb /\ uri = <<>> /\ masked_uri = <<>>
    /\ current_server = "cli"

\* the program connected to the quiet server from the command line and the
\* collector of one kind just started from its view: the monitor selected,
\* the channel "a" subscribed, or the consumer of stream "x" started
InitCollector(kind) ==
    /\ mode = "Normal"
    /\ active_resource = (IF kind = "stream" THEN "streams" ELSE kind)
    /\ should_quit = FALSE
    /\ connection = TRUE
    /\ servers = InitServers
    /\ current_server = "cli"
    /\ selected_server_index = 0
    /\ all_keys = <<>> /\ scan_result = <<>> /\ filter_text = <<>>
    /\ filter_active = FALSE /\ selected_key_index = 0
    /\ info_search_active = FALSE
    /\ pending_action = <<>>
    /\ cursor = 0 /\ next_cursor = 0 /\ cursor_stack = <<>> /\ total_keys = 0
    /\ monitor_entries = <<>> /\ selected_monitor_index = 0 /\ monitor_scroll = 0
    /\ monitor_active = (kind = "monitor")
    /\ monitor_task = (IF kind = "monitor" THEN 2 ELSE None)
    /\ streams = (IF kind = "stream" THEN <<"x">> ELSE <<>>)
    /\ selected_stream_index = 0 /\ stream_messages = <<>>
    /\ stream_active = (kind = "stream")
    /\ stream_task = (IF kind = "stream" THEN 2 ELSE None)
    /\ pubsub_subscribe_mode = (kind = "pubsub")
    /\ pubsub_subscribe_channel = (IF kind = "pubsub" THEN <<"a">> ELSE <<>>)
    /\ pubsub_subscribe_input = <<>> /\ pubsub_messages = <<>>
    /\ pubsub_task = (IF kind = "pubsub" THEN 2 ELSE None)
    /\ pubsub_channels = <<>>
    /\ rx = <<>>
    /\ tasks = << [Task("conn", <<>>, <<>>) EXCEPT !.st = "end", !.sent = 2],
                  Task(kind, <<>>, IF kind = "monitor" THEN <<>>
                                   ELSE IF kind = "pubsub" THEN <<"a">>
                                   ELSE <<"x">>) >>
    /\ pc = "input"
    /\ io = <<>>
    /\ handled = <<2, 0>>
    /\ accepted = [monitor |-> <<>>, pubsub |-> <<>>, stream |-> <<>>]
    /\ steps = NoSteps
    /\ run = NoRun
    /\ refilled = FALSE
    /\ db = QuietDb /\ uri = <<>> /\ masked_uri = <<>>

\* the program started with a URI on the command line, against the server
\* whose streams come and go
InitStreamList ==
    /\ InitApp /\ db = StreamsDb /\ uri = <<>> /\ masked_uri = <<>>
    /\ current_server = "cli"

\* the program started, with the URIs of servers about to be logged
InitMask == InitApp /\ db = QuietDb /\ uri \in UriInputs /\ masked_uri = <<>>

\* one collector runs, of any of the three kinds
InitOneCollector == \E kind \in Collectors : InitCollector(kind)

(* ---------------------------- the tasks' steps ------------------------- *)
\* the connection task sends its next event (tx_clone.send(..).await)
ConnSend(t) ==
    /\ pc \notin {"done", "panic"}
    /\ tasks[t].kind = "conn" /\ tasks[t].st = "run" /\ tasks[t].script # <<>>
    /\ LET ev == Head(tasks[t].script)
           rest == Tail(tasks[t].script)
       IN  /\ send(rx, AppEvent(ev.type, t, tasks[t].sent + 1, ev.arg), rx')
           /\ tasks' = [tasks EXCEPT ![t].sent = @ + 1, ![t].script = rest,
                                     ![t].st = IF rest = <<>> THEN "end" ELSE @]
    /\ refilled' = (refilled \/ pc = "drain")
    /\ UNCHANGED <<appVars, pc, db, uri,
                   masked_uri, io, handled, accepted, steps, run>>

EventType(kind) ==
    CASE kind = "monitor" -> "MonitorCommand"
      [] kind = "pubsub" -> "PubSubMessage"
      [] kind = "stream" -> "StreamMessage"

\* a collector gets one more item from its own connection (a monitor line that
\* parses, a published message, a stream record) and is about to send it
CollectorRead(t, lim) ==
    /\ pc \notin {"done", "panic"}
    /\ tasks[t].kind \in Collectors /\ tasks[t].st = "run" /\ ~tasks[t].pend
    /\ EventsRead < lim
    /\ tasks' = [tasks EXCEPT ![t].pend = TRUE]
    /\ UNCHANGED <<appVars, rx, pc, db, uri, masked_uri, io, histVars>>

\* a faulty collector, used to test the frame property: it writes its item
\* into the monitor buffer itself instead of sending it
CollectorSendShared(t) ==
    /\ pc \notin {"done", "panic"}
    /\ tasks[t].kind \in Collectors /\ tasks[t].st \in {"run", "abort"}
    /\ tasks[t].pend
    /\ monitor_entries' =
           ring_insert(monitor_entries,
                       [src |-> t, n |-> tasks[t].sent + 1, arg |-> tasks[t].arg])
    /\ tasks' = [tasks EXCEPT ![t].pend = FALSE, ![t].sent = @ + 1,
                              ![t].st = IF @ = "abort" THEN "end" ELSE @]
    /\ UNCHANGED <<mode, active_resource, should_quit, serverVars, keyVars,
                   pageVars, selected_monitor_index, monitor_scroll,
                   monitor_active, monitor_task, streamVars, pubsubVars, rx, pc,
                   db, uri, masked_uri, io, histVars>>
    /\ UNCHANGED <<info_search_active, pending_action>>

\* tx_clone.send(AppEvent::..(entry)).await completes
CollectorSend(t) ==
    /\ pc \notin {"done", "panic"}
    /\ tasks[t].kind \in Collectors /\ tasks[t].st \in {"run", "abort"}
    /\ tasks[t].pend
    /\ send(rx, AppEvent(EventType(tasks[t].kind), t, tasks[t].sent + 1,
                         tasks[t].arg), rx')
    /\ tasks' = [tasks EXCEPT ![t].pend = FALSE, ![t].sent = @ + 1,
                              ![t].st = IF @ = "abort" THEN "end" ELSE @]
    /\ refilled' = (refilled \/ pc = "drain")
    /\ UNCHANGED <<appVars, pc, db, uri,
                   masked_uri, io, handled, accepted, steps, run>>

\* the collector returns: no connection, the connection closed, a read error
CollectorExit(t) ==
    /\ pc \notin {"done", "panic"}
    /\ tasks[t].kind \in Collectors /\ tasks[t].st = "run" /\ ~tasks[t].pend
    /\ tasks' = [tasks EXCEPT ![t].st = "end"]
    /\ UNCHANGED <<appVars, rx, pc, db, uri, masked_uri, io, histVars>>

\* the cancellation of an aborted task takes effect before it sends
CollectorCancelled(t) ==
    /\ pc \notin {"done", "panic"}
    /\ tasks[t].st = "abort"
    /\ tasks' = [tasks EXCEPT ![t].st = "end", ![t].pend = FALSE]
    /\ UNCHANGED <<appVars, rx, pc, db, uri, masked_uri, io, histVars>>

\* the monitor task connected, wrote MONITOR and read the first response,
\* which it drops whatever it is
MonitorHandshake(t) ==
    /\ pc \notin {"done", "panic"}
    /\ tasks[t].kind = "monitor" /\ tasks[t].st = "run"
    /\ tasks[t].at = "start"
    /\ tasks' = [tasks EXCEPT ![t].at = "poll"]
    /\ UNCHANGED <<appVars, rx, pc, db, uri, masked_uri, io, histVars>>

\* TcpStream::connect or the write of MONITOR failed: the task returns
MonitorNoConnection(t) ==
    /\ pc \notin {"done", "panic"}
    /\ tasks[t].kind = "monitor" /\ tasks[t].st = "run"
    /\ tasks[t].at = "start"
    /\ tasks' = [tasks EXCEPT ![t].st = "end"]
    /\ UNCHANGED <<appVars, rx, pc, db, uri, masked_uri, io, histVars>>

\* read_line returned Ok(0) (connection closed) or Err: the loop breaks
MonitorClosed(t) ==
    /\ pc \notin {"done", "panic"}
    /\ tasks[t].kind = "monitor" /\ tasks[t].st = "run"
    /\ tasks[t].at = "poll" /\ ~tasks[t].pend
    /\ tasks' = [tasks EXCEPT ![t].st = "end"]
    /\ UNCHANGED <<appVars, rx, pc, db, uri, masked_uri, io, histVars>>

\* a faulty reader, used to test that bad lines are skipped: a line that
\* gives no entry ends the loop
MonitorReadLineStrict(t, l) ==
    /\ pc \notin {"done", "panic"}
    /\ tasks[t].kind = "monitor" /\ tasks[t].st = "run" /\ ~tasks[t].pend
    /\ tasks[t].at = "poll"
    /\ EventsRead < MaxEvents
    /\ tasks' = [tasks EXCEPT ![t].line = l,
                              ![t].arg = monitor_line_entry(l),
                              ![t].pend = (monitor_line_entry(l) # <<>>),
                              ![t].st = IF monitor_line_entry(l) = <<>>
                                        THEN "end" ELSE @]
    /\ UNCHANGED <<appVars, rx, pc, db, uri, masked_uri, io, histVars>>

\* the monitor task reads the line l from its socket: a line that starts with
\* '+' and parses is the entry of the event the task sends next
MonitorReadLine(t, l) ==
    /\ pc \notin {"done", "panic"}
    /\ tasks[t].kind = "monitor" /\ tasks[t].st = "run" /\ ~tasks[t].pend
    /\ tasks[t].at = "poll"
    /\ EventsRead < MaxEvents
    /\ tasks' = [tasks EXCEPT ![t].line = l,
                              ![t].arg = monitor_line_entry(l),
                              ![t].pend = (monitor_line_entry(l) # <<>>)]
    /\ UNCHANGED <<appVars, rx, pc, db, uri, masked_uri, io, histVars>>

\* the results of XGROUP CREATE: created, "BUSYGROUP ... already exists", or
\* another error
GroupResults == {"ok", "exists", "error"}

\* the stream consumer got its connection and XGROUP CREATE returned res, which
\* is logged and not looked at
StreamGroupCreate(t, res) ==
    /\ pc \notin {"done", "panic"}
    /\ tasks[t].kind = "stream" /\ tasks[t].st = "run"
    /\ tasks[t].at = "start"
    /\ tasks' = [tasks EXCEPT ![t].grp = res, ![t].at = "poll"]
    /\ UNCHANGED <<appVars, rx, pc, db, uri, masked_uri, io, histVars>>

\* Client::open or get_multiplexed_async_connection failed: the task returns
StreamNoConnection(t) ==
    /\ pc \notin {"done", "panic"}
    /\ tasks[t].kind = "stream" /\ tasks[t].st = "run"
    /\ tasks[t].at = "start"
    /\ tasks' = [tasks EXCEPT ![t].st = "end"]
    /\ UNCHANGED <<appVars, rx, pc, db, uri, masked_uri, io, histVars>>

\* XREADGROUP returned Ok with k records: the first is the entry to send
StreamRead(t, k) ==
    /\ pc \notin {"done", "panic"}
    /\ tasks[t].kind = "stream" /\ tasks[t].st = "run"
    /\ tasks[t].at = "poll" /\ tasks[t].polls < MaxPolls
    /\ EventsRead + k <= MaxEvents
    /\ tasks' = [tasks EXCEPT ![t].polls = @ + 1, ![t].batch = k,
                              ![t].pend = (k > 0),
                              ![t].at = IF k > 0 THEN "send" ELSE "poll"]
    /\ UNCHANGED <<appVars, rx, pc, db, uri, masked_uri, io, histVars>>

\* a faulty consumer, used to test the handling of read errors: every error
\* ends the loop, a polling timeout too
StreamReadErrorFatal(t, timed_out) ==
    /\ pc \notin {"done", "panic"}
    /\ tasks[t].kind = "stream" /\ tasks[t].st = "run"
    /\ tasks[t].at = "poll" /\ tasks[t].polls < MaxPolls
    /\ tasks' = [tasks EXCEPT ![t].polls = @ + 1, ![t].st = "end"]
    /\ UNCHANGED <<appVars, rx, pc, db, uri, masked_uri, io, histVars>>

\* XREADGROUP returned Err: the loop goes on when the error text contains
\* "timed out" and breaks otherwise
StreamReadError(t, timed_out) ==
    /\ pc \notin {"done", "panic"}
    /\ tasks[t].kind = "stream" /\ tasks[t].st = "run"
    /\ tasks[t].at = "poll" /\ tasks[t].polls < MaxPolls
    /\ tasks' = [tasks EXCEPT ![t].polls = @ + 1,
                              ![t].st = IF timed_out THEN @ ELSE "end"]
    /\ UNCHANGED <<appVars, rx, pc, db, uri, masked_uri, io, histVars>>

\* a faulty consumer, used to test the order of send and XACK: it goes on
\* to the XACK of a record without having sent its event
StreamSendSkipped(t) ==
    /\ pc \notin {"done", "panic"}
    /\ tasks[t].kind = "stream" /\ tasks[t].st \in {"run", "abort"}
    /\ tasks[t].at = "send" /\ tasks[t].pend
    /\ tasks' = [tasks EXCEPT ![t].pend = FALSE, ![t].at = "ack",
                              ![t].st = IF @ = "abort" THEN "end" ELSE @]
    /\ UNCHANGED <<appVars, rx, pc, db, uri, masked_uri, io, histVars>>

\* tx_clone.send(AppEvent::StreamMessage(entry)).await completes; XACK is next
StreamSend(t) ==
    /\ pc \notin {"done", "panic"}
    /\ tasks[t].kind = "stream" /\ tasks[t].st \in {"run", "abort"}
    /\ tasks[t].at = "send" /\ tasks[t].pend
    /\ send(rx, AppEvent("StreamMessage", t, tasks[t].sent + 1, tasks[t].arg),
            rx')
    /\ tasks' = [tasks EXCEPT ![t].pend = FALSE, ![t].sent = @ + 1,
                              ![t].at = "ack",
                              ![t].st = IF @ = "abort" THEN "end" ELSE @]
    /\ refilled' = (refilled \/ pc = "drain")
    /\ UNCHANGED <<appVars, pc, db, uri,
                   masked_uri, io, handled, accepted, steps, run>>

\* XACK of the record just sent, its result dropped; then the next record of
\* the reply, or the next XREADGROUP
StreamAck(t) ==
    /\ pc \notin {"done", "panic"}
    /\ tasks[t].kind = "stream" /\ tasks[t].st = "run"
    /\ tasks[t].at = "ack"
    /\ tasks' = [tasks EXCEPT ![t].acked = @ + 1, ![t].batch = @ - 1,
                              ![t].pend = (tasks[t].batch > 1),
                              ![t].at = IF tasks[t].batch > 1 THEN "send"
                                        ELSE "poll"]
    /\ UNCHANGED <<appVars, rx, pc, db, uri, masked_uri, io, histVars>>


(* ----------------------- the update loop: helpers ---------------------- *)
\* the loop is polling for a key (crossterm::event::poll)
AtInput == pc = "input"

\* Mode::Normal with neither the filter nor the subscribe input catching keys
NormalKeys ==
    /\ AtInput /\ mode = "Normal"
    /\ ~info_search_active /\ ~filter_active /\ ~pubsub_subscribe_mode

\* a request on the primary connection for a resource the model keeps no data of
AuxRequest(r) == IF connection THEN <<[cmd |-> r]>> ELSE <<>>

\* the request a fetch sent and whether the server answered it (Ok) or the
\* query failed (Err)
Request(cmd, ok) == [cmd |-> cmd, ok |-> ok]

\* App::fetch_streams: every way it can end, as the list it leaves in
\* self.streams; a failed KEYS returns early ("?") and assigns nothing
fetch_streams(conn) ==
    IF ~conn THEN {[streams |-> streams, io |-> <<>>]}
    ELSE {[streams |-> l, io |-> <<Request("KEYS", TRUE)>>] : l \in db.streams}
         \cup {[streams |-> streams, io |-> <<Request("KEYS", FALSE)>>]}

\* App::fetch_pubsub_channels: every way it can end, as the list it leaves in
\* self.pubsub_channels; a failed PUBSUB CHANNELS is unwrap_or_default(), the
\* empty list, which is then assigned
fetch_pubsub_channels(conn) ==
    IF ~conn THEN {[channels |-> pubsub_channels, io |-> <<>>]}
    ELSE {[channels |-> l, io |-> <<Request("PUBSUB CHANNELS", TRUE)>>] :
             l \in db.channels}
         \cup {[channels |-> <<>>,
                 io |-> <<Request("PUBSUB CHANNELS", FALSE)>>]}

\* the fetch of the resource r other than keys: fetch_streams,
\* fetch_pubsub_channels, or one request for a list the model does not keep
AuxFetched(r) ==
    IF r = "streams"
    THEN /\ \E o \in fetch_streams(connection) :
                streams' = o.streams /\ io' = o.io
         /\ UNCHANGED pubsub_channels
    ELSE IF r = "pubsub"
    THEN /\ \E o \in fetch_pubsub_channels(connection) :
                pubsub_channels' = o.channels /\ io' = o.io
         /\ UNCHANGED streams
    ELSE /\ io' = AuxRequest(r)
         /\ UNCHANGED <<streams, pubsub_channels>>

ClearAccepted(kind) == [accepted EXCEPT ![kind] = <<>>]

\* tokio::spawn, the handle being Len(tasks) + 1
Spawned(ts, task) == Append(ts, task)

\* a faulty loop, used to test the progress property: when the poll runs out
\* the loop draws and polls again without draining the channel
TickNoDrain ==
    /\ AtInput
    /\ pc' = "input" /\ io' = <<>>
    /\ UNCHANGED <<appVars, rx, tasks, db, uri, masked_uri, histVars>>


\* no key within the tick: the loop goes on to drain the channel
Tick ==
    /\ AtInput
    /\ pc' = "drain" /\ io' = <<>>
    /\ UNCHANGED <<appVars, rx, tasks, db, uri, masked_uri, histVars>>

\* Ctrl-C where the key 'c' itself does nothing the model keeps
KeyCtrlC ==
    /\ AtInput /\ mode \in {"Splash", "Describe", "Confirm", "Resources"}
    /\ should_quit' = TRUE
    /\ pc' = "drain" /\ io' = <<>>
    /\ UNCHANGED <<mode, active_resource, serverVars, keyVars, pageVars,
                   monitorVars, streamVars, pubsubVars, rx, tasks, db, uri,
                   masked_uri, histVars>>
    /\ UNCHANGED <<info_search_active, pending_action>>

\* 'q' in normal mode
KeyQ ==
    /\ NormalKeys
    /\ should_quit' = TRUE
    /\ pc' = "drain" /\ io' = <<>>
    /\ UNCHANGED <<mode, active_resource, serverVars, keyVars, pageVars,
                   monitorVars, streamVars, pubsubVars, rx, tasks, db, uri,
                   masked_uri, histVars>>
    /\ UNCHANGED <<info_search_active, pending_action>>

\* ':' opens the resource selector
KeyColon ==
    /\ NormalKeys
    /\ mode' = "Resources"
    /\ pc' = "drain" /\ io' = <<>>
    /\ UNCHANGED <<active_resource, should_quit, serverVars, keyVars, pageVars,
                   monitorVars, streamVars, pubsubVars, rx, tasks, db, uri,
                   masked_uri, histVars>>
    /\ UNCHANGED <<info_search_active, pending_action>>

\* Esc in the resource selector
ResourcesEsc ==
    /\ AtInput /\ mode = "Resources"
    /\ mode' = "Normal"
    /\ pc' = "drain" /\ io' = <<>>
    /\ UNCHANGED <<active_resource, should_quit, serverVars, keyVars, pageVars,
                   monitorVars, streamVars, pubsubVars, rx, tasks, db, uri,
                   masked_uri, histVars>>
    /\ UNCHANGED <<info_search_active, pending_action>>

\* Enter in the resource selector with the resource r selected: the collectors of
\* the view that is left are stopped, the view is switched, its data fetched
ResourcesEnter(r) ==
    /\ AtInput /\ mode = "Resources"
    /\ LET stopM == active_resource = "monitor" /\ r # "monitor"
           stopP == active_resource = "pubsub" /\ r # "pubsub"
           stopS == active_resource = "streams" /\ r # "streams"
           victim == IF stopM THEN monitor_task
                     ELSE IF stopP THEN pubsub_task
                     ELSE IF stopS THEN stream_task ELSE None
       IN  /\ r = "monitor" => Len(tasks) < MaxTasks
           /\ \E ts \in AbortOutcomes(tasks, victim) :
                  tasks' = IF r = "monitor"
                           THEN Spawned(ts, Task("monitor", <<>>, <<>>))
                           ELSE ts
           /\ handled' = IF r = "monitor" THEN Append(handled, 0) ELSE handled
           /\ IF r = "monitor"
              THEN /\ monitor_active' = TRUE
                   /\ monitor_entries' = <<>>
                   /\ monitor_task' = Len(tasks) + 1
              ELSE IF stopM
              THEN /\ monitor_active' = FALSE
                   /\ monitor_entries' = <<>>
                   /\ monitor_task' = None
              ELSE UNCHANGED <<monitor_active, monitor_entries, monitor_task>>
           /\ IF stopP
              THEN /\ pubsub_task' = None
                   /\ pubsub_subscribe_mode' = FALSE
                   /\ pubsub_subscribe_channel' = <<>>
                   /\ pubsub_messages' = <<>>
              ELSE UNCHANGED <<pubsub_task, pubsub_subscribe_mode,
                               pubsub_subscribe_channel, pubsub_messages>>
           /\ IF stopS
              THEN /\ stream_active' = FALSE
                   /\ stream_task' = None
                   /\ stream_messages' = <<>>
              ELSE UNCHANGED <<stream_active, stream_task, stream_messages>>
           /\ accepted' =
                  [monitor |-> IF r = "monitor" \/ stopM THEN <<>>
                               ELSE accepted.monitor,
                   pubsub |-> IF stopP THEN <<>> ELSE accepted.pubsub,
                   stream |-> IF stopS THEN <<>> ELSE accepted.stream]
    /\ active_resource' = r
    /\ mode' = "Normal"
    /\ IF r = "keys"
       THEN /\ \E o \in fetch_keys(connection, cursor, <<>>, filter_text,
                                   selected_key_index) : Fetched(o)
            /\ UNCHANGED <<streams, pubsub_channels>>
       ELSE /\ UNCHANGED <<total_keys, next_cursor, all_keys, scan_result,
                           selected_key_index>>
            /\ IF r \in {"monitor", "servers"}
               THEN io' = <<>> /\ UNCHANGED <<streams, pubsub_channels>>
               ELSE AuxFetched(r)
    /\ pc' = "drain"
    /\ UNCHANGED <<should_quit, serverVars, filter_text, filter_active, cursor,
                   cursor_stack, selected_monitor_index, monitor_scroll,
                   selected_stream_index, pubsub_subscribe_input, rx, db, uri,
                   masked_uri, steps, run, refilled>>
    /\ UNCHANGED <<info_search_active, pending_action>>

(* ------------------------ normal mode: the keys ------------------------ *)
\* 'j' / Down
KeyDown ==
    /\ NormalKeys
    /\ selected_server_index' =
           IF /\ active_resource = "servers" /\ servers # <<>>
              /\ selected_server_index < Len(servers) - 1
           THEN selected_server_index + 1 ELSE selected_server_index
    /\ LET move == /\ active_resource = "monitor" /\ monitor_entries # <<>>
                   /\ selected_monitor_index < Len(monitor_entries) - 1
       IN  /\ selected_monitor_index' =
                  IF move THEN selected_monitor_index + 1
                  ELSE selected_monitor_index
           /\ monitor_scroll' =
                  IF move /\ selected_monitor_index + 1 >= monitor_scroll + 10
                  THEN monitor_scroll + 1 ELSE monitor_scroll
    /\ selected_stream_index' =
           IF /\ active_resource = "streams" /\ streams # <<>>
              /\ selected_stream_index < Len(streams) - 1
           THEN selected_stream_index + 1 ELSE selected_stream_index
    /\ selected_key_index' =
           IF /\ active_resource = "keys" /\ scan_result # <<>>
              /\ selected_key_index < Len(scan_result) - 1
           THEN selected_key_index + 1 ELSE selected_key_index
    /\ pc' = "drain" /\ io' = <<>>
    /\ UNCHANGED <<mode, active_resource, should_quit, connection, current_server,
                   servers, all_keys, scan_result, filter_text, filter_active,
                   pageVars, monitor_entries, monitor_active, monitor_task,
                   streams, stream_messages, stream_active, stream_task,
                   pubsubVars, rx, tasks, db, uri, masked_uri, histVars>>
    /\ UNCHANGED <<info_search_active, pending_action>>

\* 'k' / Up
KeyUp ==
    /\ NormalKeys
    /\ selected_server_index' =
           IF active_resource = "servers" /\ selected_server_index > 0
           THEN selected_server_index - 1 ELSE selected_server_index
    /\ LET move == active_resource = "monitor" /\ selected_monitor_index > 0
       IN  /\ selected_monitor_index' =
                  IF move THEN selected_monitor_index - 1
                  ELSE selected_monitor_index
           /\ monitor_scroll' =
                  IF move /\ selected_monitor_index - 1 < monitor_scroll
                  THEN (IF monitor_scroll > 0 THEN monitor_scroll - 1 ELSE 0)
                  ELSE monitor_scroll
    /\ selected_stream_index' =
           IF active_resource = "streams" /\ selected_stream_index > 0
           THEN selected_stream_index - 1 ELSE selected_stream_index
    /\ selected_key_index' =
           IF /\ active_resource = "keys" /\ scan_result # <<>>
              /\ selected_key_index > 0
           THEN selected_key_index - 1 ELSE selected_key_index
    /\ pc' = "drain" /\ io' = <<>>
    /\ UNCHANGED <<mode, active_resource, should_quit, connection, current_server,
                   servers, all_keys, scan_result, filter_text, filter_active,
                   pageVars, monitor_entries, monitor_active, monitor_task,
                   streams, stream_messages, stream_active, stream_task,
                   pubsubVars, rx, tasks, db, uri, masked_uri, histVars>>
    /\ UNCHANGED <<info_search_active, pending_action>>

\* Home (and "gg"): App::go_to_top
KeyHome ==
    /\ NormalKeys
    /\ selected_key_index' = 0
    /\ pc' = "drain" /\ io' = <<>>
    /\ UNCHANGED <<mode, active_resource, should_quit, serverVars, all_keys,
                   scan_result, filter_text, filter_active, info_search_active,
                   pending_action, pageVars, monitorVars, streamVars,
                   pubsubVars, rx, tasks, db, uri, masked_uri, histVars>>

\* a faulty go_to_bottom, used to test the selection: it selects the length
go_to_bottom_len(scan, idx) == IF scan # <<>> THEN Len(scan) ELSE idx

\* App::go_to_bottom
go_to_bottom(scan, idx) == IF scan # <<>> THEN Len(scan) - 1 ELSE idx

\* 'G' / End
KeyEnd ==
    /\ NormalKeys
    /\ selected_key_index' = go_to_bottom(scan_result, selected_key_index)
    /\ pc' = "drain" /\ io' = <<>>
    /\ UNCHANGED <<mode, active_resource, should_quit, serverVars, all_keys,
                   scan_result, filter_text, filter_active, info_search_active,
                   pending_action, pageVars, monitorVars, streamVars,
                   pubsubVars, rx, tasks, db, uri, masked_uri, histVars>>

\* 'R': refresh the data of the active resource
KeyR ==
    /\ NormalKeys
    /\ IF active_resource \in {"keys", "servers"}
       THEN /\ \E o \in fetch_keys(connection, cursor, <<>>, filter_text,
                                   selected_key_index) : Fetched(o)
            /\ UNCHANGED <<streams, pubsub_channels>>
       ELSE /\ UNCHANGED <<total_keys, next_cursor, all_keys, scan_result,
                           selected_key_index>>
            /\ IF active_resource = "monitor"
               THEN io' = <<>> /\ UNCHANGED <<streams, pubsub_channels>>
               ELSE AuxFetched(active_resource)
    /\ monitor_entries' =
           IF active_resource = "monitor" THEN <<>> ELSE monitor_entries
    /\ accepted' =
           IF active_resource = "monitor" THEN ClearAccepted("monitor")
           ELSE accepted
    /\ pc' = "drain"
    /\ UNCHANGED <<mode, active_resource, should_quit, serverVars, filter_text,
                   filter_active, cursor, cursor_stack, selected_monitor_index,
                   monitor_scroll, monitor_active, monitor_task,
                   selected_stream_index, stream_messages, stream_active,
                   stream_task, pubsub_subscribe_mode, pubsub_subscribe_channel,
                   pubsub_subscribe_input, pubsub_messages, pubsub_task, rx,
                   tasks, db, uri, masked_uri, handled, steps, run, refilled>>
    /\ UNCHANGED <<info_search_active, pending_action>>

\* Esc in normal mode: App::stop_stream_consumer when a consumer is active
KeyEsc ==
    /\ NormalKeys
    /\ IF stream_active
       THEN /\ stream_active' = FALSE
            /\ stream_task' = None
            /\ stream_messages' = <<>>
            /\ accepted' = ClearAccepted("stream")
            /\ tasks' \in AbortOutcomes(tasks, stream_task)
       ELSE UNCHANGED <<stream_active, stream_task, stream_messages, accepted,
                        tasks>>
    /\ pc' = "drain" /\ io' = <<>>
    /\ UNCHANGED <<mode, active_resource, should_quit, serverVars, keyVars,
                   pageVars, monitorVars, streams, selected_stream_index,
                   pubsubVars, rx, db, uri,
                   masked_uri, handled, steps, run, refilled>>
    /\ UNCHANGED <<info_search_active, pending_action>>

\* the connection task of the servers view: with detect it first asks the server
\* for its type, which succeeds (info) or not
ConnTasks(detect, name) ==
    IF detect THEN {Task("conn", ConnScript(TRUE, name), <<>>),
                    Task("conn", ConnScriptNoInfo, <<>>)}
    ELSE {Task("conn", ConnScript(FALSE, name), <<>>)}

\* 'c', with or without Ctrl: connect to the selected server (servers view) or
\* start the stream consumer (streams view); Ctrl-C also sets should_quit
KeyC(ctrl) ==
    /\ NormalKeys
    /\ should_quit' = (should_quit \/ ctrl)
    /\ io' = <<>>
    /\ IF active_resource = "servers" /\ servers # <<>>
       THEN IF selected_server_index < Len(servers)
            THEN LET server == servers[selected_server_index + 1]
                 IN  /\ Len(tasks) < MaxTasks
                     /\ current_server' = server.name
                     /\ connection' = FALSE
                     /\ mode' = "Splash"
                     /\ \E task \in ConnTasks(~server.info, server.name) :
                            tasks' = Spawned(tasks, task)
                     /\ handled' = Append(handled, 0)
                     /\ pc' = "drain"
                     /\ UNCHANGED <<stream_active, stream_messages,
                                    stream_task, accepted>>
            ELSE \* servers[app.selected_server_index] is out of range
                 /\ pc' = "panic"
                 /\ UNCHANGED <<current_server, connection, mode, tasks,
                                handled, stream_active, stream_messages,
                                stream_task, accepted>>
       ELSE IF active_resource = "streams" /\ streams # <<>>
       THEN IF selected_stream_index < Len(streams)
            THEN /\ Len(tasks) < MaxTasks
                 /\ stream_active' = TRUE
                 /\ stream_messages' = <<>>
                 /\ accepted' = ClearAccepted("stream")
                 /\ tasks' = Spawned(tasks,
                        Task("stream", <<>>, <<streams[selected_stream_index + 1]>>))
                 /\ handled' = Append(handled, 0)
                 /\ stream_task' = Len(tasks) + 1
                 /\ pc' = "drain"
                 /\ UNCHANGED <<current_server, connection, mode>>
            ELSE \* app.streams[app.selected_stream_index] is out of range
                 /\ stream_active' = TRUE
                 /\ stream_messages' = <<>>
                 /\ accepted' = ClearAccepted("stream")
                 /\ pc' = "panic"
                 /\ UNCHANGED <<current_server, connection, mode, tasks, handled,
                                stream_task>>
       ELSE /\ pc' = "drain"
            /\ UNCHANGED <<current_server, connection, mode, tasks, handled,
                           stream_active, stream_messages, stream_task, accepted>>
    /\ UNCHANGED <<active_resource, servers, selected_server_index, keyVars,
                   pageVars, monitorVars, streams, selected_stream_index,
                   pubsubVars, rx, db, uri, masked_uri, steps, run, refilled>>
    /\ UNCHANGED <<info_search_active, pending_action>>

\* Enter in the servers view: connect to the selected server
KeyEnterServers ==
    /\ NormalKeys
    /\ active_resource = "servers" /\ servers # <<>>
    /\ IF selected_server_index < Len(servers)
       THEN /\ Len(tasks) < MaxTasks
            /\ current_server' = servers[selected_server_index + 1].name
            /\ connection' = FALSE
            /\ mode' = "Splash"
            /\ tasks' = Spawned(tasks, Task("conn", ConnScript(FALSE, ""), <<>>))
            /\ handled' = Append(handled, 0)
            /\ pc' = "drain"
       ELSE \* servers[app.selected_server_index] is out of range
            /\ pc' = "panic"
            /\ UNCHANGED <<current_server, connection, mode, tasks, handled>>
    /\ io' = <<>>
    /\ UNCHANGED <<active_resource, should_quit, servers, selected_server_index,
                   keyVars, pageVars, monitorVars, streamVars, pubsubVars, rx,
                   db, uri, masked_uri, accepted, steps, run, refilled>>
    /\ UNCHANGED <<info_search_active, pending_action>>

(* --------------------------- the page turns ---------------------------- *)
\* a faulty push, used to test the count of the page turns: nothing is pushed
push_nothing(v, x) == v

\* Vec::push
push(v, x) == Append(v, x)

\* a faulty pop, used to test the round trip: the oldest value is returned
popped_oldest(v) == v[1]

\* the value Vec::pop returns on a non-empty vector
popped(v) == v[Len(v)]

\* the latest MaxSteps entries of a history
Latest(h) == IF Len(h) > MaxSteps THEN Tail(h) ELSE h

\* the history after a next_page call made with cursor c: adv tells whether it
\* advanced, emp whether the stack was empty
RunNext(c, adv, emp) ==
    IF run.p = 0
    THEN [starts |-> Latest(Append(run.starts, c)),
          ok |-> Latest(Append(run.ok, [adv |-> adv, emp |-> emp])),
          p |-> 0]
    ELSE [starts |-> <<c>>, ok |-> << [adv |-> adv, emp |-> emp] >>, p |-> 0]

\* the history after a prev_page call
RunPrev == IF run.p < Len(run.starts) THEN [run EXCEPT !.p = @ + 1] ELSE NoRun

\* a faulty next_page, used to test the no-op property: it advances whatever
\* next_cursor is
KeyNextPageAlways ==
    /\ NormalKeys
    /\ Len(cursor_stack) < MaxStack /\ steps.fwd < MaxSteps
    /\ cursor_stack' = push(cursor_stack, cursor)
    /\ cursor' = next_cursor
    /\ \E o \in fetch_keys(connection, next_cursor, page_pattern(filter_text),
                           filter_text, selected_key_index) : Fetched(o)
    /\ steps' = [steps EXCEPT !.fwd = @ + 1]
    /\ run' = RunNext(cursor, next_cursor # 0, cursor_stack = <<>>)
    /\ pc' = "drain"
    /\ UNCHANGED <<mode, active_resource, should_quit, serverVars, filter_text,
                   filter_active, info_search_active, pending_action,
                   monitorVars, streamVars,
                   pubsubVars, rx, tasks, db, uri,
                   masked_uri, handled, accepted, refilled>>

\* a faulty next_page, used to test what is pushed: the cursor of the page
\* entered is pushed, not the cursor of the page left
KeyNextPagePushesNext ==
    /\ NormalKeys
    /\ IF next_cursor # 0
       THEN /\ Len(cursor_stack) < MaxStack /\ steps.fwd < MaxSteps
            /\ cursor_stack' = push(cursor_stack, next_cursor)
            /\ cursor' = next_cursor
            /\ \E o \in fetch_keys(connection, next_cursor,
                                   page_pattern(filter_text), filter_text,
                                   selected_key_index) : Fetched(o)
            /\ steps' = [steps EXCEPT !.fwd = @ + 1]
       ELSE /\ io' = <<>>
            /\ UNCHANGED <<cursor, next_cursor, cursor_stack, total_keys,
                           all_keys, scan_result, selected_key_index, steps>>
    /\ run' = RunNext(cursor, next_cursor # 0, cursor_stack = <<>>)
    /\ pc' = "drain"
    /\ UNCHANGED <<mode, active_resource, should_quit, serverVars, filter_text,
                   filter_active, info_search_active, pending_action,
                   monitorVars, streamVars,
                   pubsubVars, rx, tasks, db, uri,
                   masked_uri, handled, accepted, refilled>>

\* ']': App::next_page
KeyNextPage ==
    /\ NormalKeys
    /\ IF next_cursor # 0
       THEN /\ Len(cursor_stack) < MaxStack /\ steps.fwd < MaxSteps
            /\ cursor_stack' = push(cursor_stack, cursor)
            /\ cursor' = next_cursor
            /\ \E o \in fetch_keys(connection, next_cursor,
                                   page_pattern(filter_text), filter_text,
                                   selected_key_index) : Fetched(o)
            /\ steps' = [steps EXCEPT !.fwd = @ + 1]
       ELSE /\ io' = <<>>
            /\ UNCHANGED <<cursor, next_cursor, cursor_stack, total_keys,
                           all_keys, scan_result, selected_key_index, steps>>
    /\ run' = RunNext(cursor, next_cursor # 0, cursor_stack = <<>>)
    /\ pc' = "drain"
    /\ UNCHANGED <<mode, active_resource, should_quit, serverVars, filter_text,
                   filter_active, info_search_active, pending_action,
                   monitorVars, streamVars,
                   pubsubVars, rx, tasks, db, uri,
                   masked_uri, handled, accepted, refilled>>

\* a faulty prev_page, used to test the re-fetch: the cursor is popped and the
\* page is not fetched
KeyPrevPageCached ==
    /\ NormalKeys
    /\ IF cursor_stack # <<>>
       THEN /\ cursor' = popped(cursor_stack)
            /\ cursor_stack' = vec_pop(cursor_stack)
            /\ steps' = [steps EXCEPT !.back = @ + 1]
       ELSE UNCHANGED <<cursor, cursor_stack, steps>>
    /\ io' = <<>>
    /\ run' = RunPrev
    /\ pc' = "drain"
    /\ UNCHANGED <<mode, active_resource, should_quit, serverVars, keyVars,
                   next_cursor, total_keys, info_search_active, pending_action,
                   monitorVars,
                   streamVars, pubsubVars, rx, tasks, db, uri,
                   masked_uri, handled, accepted, refilled>>

\* '[': App::prev_page
KeyPrevPage ==
    /\ NormalKeys
    /\ IF cursor_stack # <<>>
       THEN /\ cursor' = popped(cursor_stack)
            /\ cursor_stack' = vec_pop(cursor_stack)
            /\ \E o \in fetch_keys(connection, popped(cursor_stack),
                                   page_pattern(filter_text), filter_text,
                                   selected_key_index) : Fetched(o)
            /\ steps' = [steps EXCEPT !.back = @ + 1]
       ELSE /\ io' = <<>>
            /\ UNCHANGED <<cursor, next_cursor, cursor_stack, total_keys,
                           all_keys, scan_result, selected_key_index, steps>>
    /\ run' = RunPrev
    /\ pc' = "drain"
    /\ UNCHANGED <<mode, active_resource, should_quit, serverVars, filter_text,
                   filter_active, info_search_active, pending_action,
                   monitorVars, streamVars,
                   pubsubVars, rx, tasks, db, uri,
                   masked_uri, handled, accepted, refilled>>

(* ----------------------------- the dialogs ----------------------------- *)
\* Option<PendingAction>: Some(PendingAction { key, action_type, selected_yes })
PendingAction(key, type) ==
    <<[key |-> key, action_type |-> type, selected_yes |-> FALSE]>>

\* Ctrl-D in normal mode: the confirmation of a server deletion in the servers
\* view with a server, else of a key deletion when scan_result holds a key
KeyCtrlD ==
    /\ NormalKeys
    /\ IF active_resource = "servers" /\ servers # <<>>
       THEN IF selected_server_index < Len(servers)
            THEN /\ pending_action' =
                        PendingAction(servers[selected_server_index + 1].name,
                                      "DeleteServer")
                 /\ mode' = "Confirm"
                 /\ pc' = "drain"
            ELSE \* servers[app.selected_server_index] is out of range
                 /\ pc' = "panic"
                 /\ UNCHANGED <<pending_action, mode>>
       ELSE IF scan_result # <<>>
       THEN /\ pending_action' =
                   PendingAction(scan_result[selected_key_index + 1],
                                 "DeleteKey")
            /\ mode' = "Confirm"
            /\ pc' = "drain"
       ELSE pc' = "drain" /\ UNCHANGED <<pending_action, mode>>
    /\ io' = <<>>
    /\ UNCHANGED <<active_resource, should_quit, serverVars, keyVars,
                   info_search_active, pageVars, monitorVars, streamVars,
                   pubsubVars, rx, tasks, db, uri, masked_uri, histVars>>

\* 'a' in normal mode: the server dialog, in the servers view only
KeyA ==
    /\ NormalKeys
    /\ mode' = IF active_resource = "servers" THEN "ServerDialog" ELSE mode
    /\ pc' = "drain" /\ io' = <<>>
    /\ UNCHANGED <<active_resource, should_quit, serverVars, keyVars,
                   info_search_active, pending_action, pageVars, monitorVars,
                   streamVars, pubsubVars, rx, tasks, db, uri,
                   masked_uri, histVars>>

\* Esc in the server dialog
ServerDialogEsc ==
    /\ AtInput /\ mode = "ServerDialog"
    /\ IF servers = <<>>
       THEN should_quit' = TRUE /\ UNCHANGED mode
       ELSE mode' = "Splash" /\ UNCHANGED should_quit
    /\ pc' = "drain" /\ io' = <<>>
    /\ UNCHANGED <<active_resource, serverVars, keyVars, info_search_active,
                   pending_action, pageVars, monitorVars, streamVars,
                   pubsubVars, rx, tasks, db, uri, masked_uri, histVars>>

\* TredisConfig::add_server: the entry is pushed, whatever names the list holds
add_server(list, name) == Append(list, [name |-> name, info |-> FALSE])

\* the names typed into the dialog: one the configuration holds, a new one, or
\* none
DialogNames == {InitServers[1].name, "s3", ""}

\* Enter in the server dialog, the name field holding name: the entry is added
\* and saved (saved), the URI parsed (uri_ok), and the task that detects the
\* server type and connects is spawned
ServerDialogEnter(name, saved, uri_ok) ==
    /\ AtInput /\ mode = "ServerDialog"
    /\ IF name = ""
       THEN UNCHANGED <<servers, current_server, mode, tasks, handled>>
       ELSE /\ Len(servers) < MaxServers
            /\ servers' = add_server(servers, name)
            /\ current_server' = IF saved THEN name ELSE current_server
            /\ IF saved /\ uri_ok
               THEN /\ Len(tasks) < MaxTasks
                    /\ mode' = "Splash"
                    /\ \E task \in ConnTasks(TRUE, name) :
                           tasks' = Spawned(tasks, task)
                    /\ handled' = Append(handled, 0)
               ELSE UNCHANGED <<mode, tasks, handled>>
    /\ pc' = "drain" /\ io' = <<>>
    /\ UNCHANGED <<active_resource, should_quit, connection,
                   selected_server_index, keyVars, info_search_active,
                   pending_action, pageVars, monitorVars, streamVars,
                   pubsubVars, rx, db, uri,
                   masked_uri, accepted, steps, run, refilled>>

\* Esc, 'n' or 'N' in the confirmation
ConfirmEsc ==
    /\ AtInput /\ mode = "Confirm"
    /\ pending_action' = <<>>
    /\ mode' = "Normal"
    /\ pc' = "drain" /\ io' = <<>>
    /\ UNCHANGED <<active_resource, should_quit, serverVars, keyVars,
                   info_search_active, pageVars, monitorVars, streamVars,
                   pubsubVars, rx, tasks, db, uri, masked_uri, histVars>>

\* Left, Right, Tab, 'h' or 'l' in the confirmation
ConfirmToggle ==
    /\ AtInput /\ mode = "Confirm"
    /\ pending_action' =
           IF pending_action = <<>> THEN <<>>
           ELSE <<[pending_action[1] EXCEPT !.selected_yes = ~@]>>
    /\ pc' = "drain" /\ io' = <<>>
    /\ UNCHANGED <<mode, active_resource, should_quit, serverVars, keyVars,
                   info_search_active, pageVars, monitorVars, streamVars,
                   pubsubVars, rx, tasks, db, uri, masked_uri, histVars>>

\* App::delete_key: DEL of the pending key on the primary connection, as the
\* requests it sends
delete_key(conn, pending) ==
    IF pending # <<>> /\ conn
    THEN <<[cmd |-> "DEL", key |-> pending[1].key]>>
    ELSE <<>>

\* App::delete_server
delete_server(list, name) ==
    LET Keep(srv) == srv.name # name
    IN  SelectSeq(list, Keep)

\* the fields fetch_keys writes take the values of outcome o, the requests
\* pre having been sent before those of fetch_keys
FetchedAfter(pre, o) ==
    /\ total_keys' = o.total_keys
    /\ next_cursor' = o.next_cursor
    /\ all_keys' = o.all_keys
    /\ scan_result' = o.scan_result
    /\ selected_key_index' = o.selected_key_index
    /\ io' = pre \o o.io

\* a faulty Enter, used to test the confirmation: the deletion is made
\* whatever the selection
ConfirmEnterAlways ==
    /\ AtInput /\ mode = "Confirm"
    /\ IF pending_action # <<>> /\ pending_action[1].action_type = "DeleteKey"
       THEN /\ \E o \in fetch_keys(connection, cursor, <<>>, filter_text,
                                   selected_key_index) :
                   FetchedAfter(delete_key(connection, pending_action), o)
            /\ UNCHANGED <<servers, selected_server_index, current_server>>
       ELSE /\ io' = <<>>
            /\ servers' = IF pending_action = <<>> THEN servers
                          ELSE delete_server(servers, pending_action[1].key)
            /\ UNCHANGED <<selected_server_index, current_server, all_keys,
                           scan_result, selected_key_index, total_keys,
                           next_cursor>>
    /\ pending_action' = <<>>
    /\ mode' = "Normal"
    /\ pc' = "drain"
    /\ UNCHANGED <<active_resource, should_quit, connection, filter_text,
                   filter_active, info_search_active, cursor, cursor_stack,
                   monitorVars, streamVars, pubsubVars, rx, tasks, db, uri,
                   masked_uri,
                   histVars>>

\* Enter in the confirmation: with Yes selected the key is deleted and the
\* keys fetched again, or the server is removed from the configuration; the
\* confirmation closes in every case
ConfirmEnter ==
    /\ AtInput /\ mode = "Confirm"
    /\ LET yes == pending_action # <<>> /\ pending_action[1].selected_yes
           type == IF pending_action = <<>> THEN "none"
                   ELSE pending_action[1].action_type
       IN  IF yes /\ type = "DeleteKey"
           THEN /\ \E o \in fetch_keys(connection, cursor, <<>>, filter_text,
                                       selected_key_index) :
                       FetchedAfter(delete_key(connection, pending_action), o)
                /\ UNCHANGED <<servers, selected_server_index, current_server>>
           ELSE IF yes /\ type = "DeleteServer"
           THEN LET name == pending_action[1].key
                    left == delete_server(servers, name)
                IN  /\ servers' = left
                    /\ selected_server_index' =
                           IF /\ selected_server_index >= Len(left)
                              /\ selected_server_index > 0
                           THEN selected_server_index - 1
                           ELSE selected_server_index
                    /\ current_server' =
                           IF current_server = name THEN NoServer
                           ELSE current_server
                    /\ io' = <<>>
                    /\ UNCHANGED <<all_keys, scan_result, selected_key_index,
                                   total_keys, next_cursor>>
           ELSE /\ io' = <<>>
                /\ UNCHANGED <<servers, selected_server_index, current_server,
                               all_keys, scan_result, selected_key_index,
                               total_keys, next_cursor>>
    /\ pending_action' = <<>>
    /\ mode' = "Normal"
    /\ pc' = "drain"
    /\ UNCHANGED <<active_resource, should_quit, connection, filter_text,
                   filter_active, info_search_active, cursor, cursor_stack,
                   monitorVars, streamVars, pubsubVars, rx, tasks, db, uri,
                   masked_uri,
                   histVars>>

(* ----------------------------- the filter ------------------------------ *)
\* '/': open the filter (keys view) or the search (info view)
KeySlash ==
    /\ NormalKeys
    /\ IF active_resource = "keys"
       THEN /\ filter_active' = TRUE
            /\ filter_text' = <<>>
            /\ scan_result' = apply_filter_scan(all_keys, <<>>)
            /\ selected_key_index' =
                   apply_filter_index(apply_filter_scan(all_keys, <<>>),
                                      selected_key_index)
            /\ UNCHANGED <<info_search_active, pending_action>>
       ELSE /\ info_search_active' = (active_resource = "info")
            /\ UNCHANGED <<filter_active, filter_text, scan_result,
                           selected_key_index, pending_action>>
    /\ pc' = "drain" /\ io' = <<>>
    /\ UNCHANGED <<mode, active_resource, should_quit, serverVars, all_keys,
                   pageVars, monitorVars, streamVars, pubsubVars, rx, tasks, db, uri,
                   masked_uri,
                   histVars>>

\* the search input of the info view catches the keys of normal mode
InfoSearchKeys == AtInput /\ mode = "Normal" /\ info_search_active

\* Enter or Esc closes the search input
InfoSearchClose ==
    /\ InfoSearchKeys
    /\ info_search_active' = FALSE
    /\ pc' = "drain" /\ io' = <<>>
    /\ UNCHANGED <<mode, active_resource, should_quit, serverVars, keyVars,
                   pending_action, pageVars, monitorVars, streamVars,
                   pubsubVars, rx, tasks, db, uri, masked_uri, histVars>>

\* Backspace or a character edits the search text, which the model does not
\* keep; Ctrl-C is the character 'c' and quits
InfoSearchEdit(ctrl) ==
    /\ InfoSearchKeys
    /\ should_quit' = (should_quit \/ ctrl)
    /\ pc' = "drain" /\ io' = <<>>
    /\ UNCHANGED <<mode, active_resource, serverVars, keyVars,
                   info_search_active, pending_action,
                   pageVars, monitorVars, streamVars,
                   pubsubVars, rx, tasks, db, uri, masked_uri, histVars>>

\* the filter input catches the keys of normal mode
FilterKeys ==
    AtInput /\ mode = "Normal" /\ ~info_search_active /\ filter_active

\* a faulty commit, used to test the reset: the search starts at the page
\* shown, with the history as it is
FilterEnterNoReset ==
    /\ FilterKeys
    /\ filter_active' = FALSE
    /\ \E o \in fetch_keys(connection, cursor, Some(filter_text), filter_text,
                           selected_key_index) : Fetched(o)
    /\ pc' = "drain"
    /\ UNCHANGED <<mode, active_resource, should_quit, serverVars, filter_text,
                   info_search_active, pending_action,
                   cursor, cursor_stack, monitorVars,
                   streamVars, pubsubVars, rx, tasks, db, uri,
                   masked_uri, histVars>>

\* Enter: search for the text, from the first page
FilterEnter ==
    /\ FilterKeys
    /\ filter_active' = FALSE
    /\ cursor' = 0
    /\ cursor_stack' = <<>>
    /\ \E o \in fetch_keys(connection, 0, Some(filter_text), filter_text,
                           selected_key_index) : Fetched(o)
    /\ steps' = NoSteps /\ run' = NoRun
    /\ pc' = "drain"
    /\ UNCHANGED <<mode, active_resource, should_quit, serverVars, filter_text,
                   info_search_active, pending_action,
                   monitorVars, streamVars, pubsubVars, rx,
                   tasks, db, uri, masked_uri, handled, accepted, refilled>>

\* Esc: drop the text, back to the first page of all keys
FilterEsc ==
    /\ FilterKeys
    /\ filter_text' = <<>>
    /\ filter_active' = FALSE
    /\ cursor' = 0
    /\ cursor_stack' = <<>>
    /\ \E o \in fetch_keys(connection, 0, <<>>, <<>>, selected_key_index) :
           Fetched(o)
    /\ steps' = NoSteps /\ run' = NoRun
    /\ pc' = "drain"
    /\ UNCHANGED <<mode, active_resource, should_quit, serverVars,
                   info_search_active, pending_action,
                   monitorVars, streamVars, pubsubVars, rx,
                   tasks, db, uri, masked_uri, handled, accepted, refilled>>

\* the fields App::apply_filter writes, for the filter text ftext
FilterApplied(ftext) ==
    /\ scan_result' = apply_filter_scan(all_keys, ftext)
    /\ selected_key_index' =
           apply_filter_index(apply_filter_scan(all_keys, ftext),
                              selected_key_index)

\* Backspace: filter_text.pop(), apply_filter()
FilterBackspace ==
    /\ FilterKeys
    /\ filter_text' = pop(filter_text)
    /\ FilterApplied(pop(filter_text))
    /\ pc' = "drain" /\ io' = <<>>
    /\ UNCHANGED <<mode, active_resource, should_quit, serverVars, all_keys,
                   filter_active, info_search_active, pending_action,
                   pageVars, monitorVars,
                   streamVars, pubsubVars, rx, tasks, db, uri,
                   masked_uri, histVars>>

\* a character: filter_text.push(c), apply_filter(); Ctrl-C types 'c' and quits
FilterChar(ch, ctrl) ==
    /\ FilterKeys
    /\ ctrl => ch = "c"
    /\ Len(filter_text) < MaxFilter
    /\ should_quit' = (should_quit \/ ctrl)
    /\ filter_text' = Append(filter_text, ch)
    /\ FilterApplied(Append(filter_text, ch))
    /\ pc' = "drain" /\ io' = <<>>
    /\ UNCHANGED <<mode, active_resource, serverVars, all_keys, filter_active,
                   info_search_active, pending_action,
                   pageVars, monitorVars, streamVars,
                   pubsubVars, rx, tasks, db, uri, masked_uri, histVars>>

(* ------------------------- the subscribe input ------------------------- *)
\* a faulty 's', used to test the flags of the views: it opens the subscribe
\* input in every view
KeySAnyView ==
    /\ NormalKeys
    /\ pubsub_subscribe_mode' = TRUE
    /\ pubsub_subscribe_input' = <<>>
    /\ pubsub_subscribe_channel' = <<>>
    /\ pubsub_messages' = <<>>
    /\ accepted' = ClearAccepted("pubsub")
    /\ pc' = "drain" /\ io' = <<>>
    /\ UNCHANGED <<mode, active_resource, should_quit, serverVars, keyVars,
                   pageVars, monitorVars, streamVars, pubsub_task,
                   pubsub_channels, rx, tasks, db, uri,
                   masked_uri, handled, steps, run, refilled>>
    /\ UNCHANGED <<info_search_active, pending_action>>

\* 's' in the pubsub view opens the subscribe input
KeyS ==
    /\ NormalKeys
    /\ IF active_resource = "pubsub"
       THEN /\ pubsub_subscribe_mode' = TRUE
            /\ pubsub_subscribe_input' = <<>>
            /\ pubsub_subscribe_channel' = <<>>
            /\ pubsub_messages' = <<>>
            /\ accepted' = ClearAccepted("pubsub")
       ELSE UNCHANGED <<pubsub_subscribe_mode, pubsub_subscribe_input,
                        pubsub_subscribe_channel, pubsub_messages, accepted>>
    /\ pc' = "drain" /\ io' = <<>>
    /\ UNCHANGED <<mode, active_resource, should_quit, serverVars, keyVars,
                   pageVars, monitorVars, streamVars, pubsub_task,
                   pubsub_channels, rx, tasks, db, uri,
                   masked_uri, handled, steps, run, refilled>>
    /\ UNCHANGED <<info_search_active, pending_action>>

\* the subscribe input catches the keys of normal mode
SubscribeKeys ==
    /\ AtInput /\ mode = "Normal"
    /\ ~info_search_active /\ ~filter_active /\ pubsub_subscribe_mode

\* Esc or 'q': stop the subscription
SubscribeEsc ==
    /\ SubscribeKeys
    /\ tasks' \in AbortOutcomes(tasks, pubsub_task)
    /\ pubsub_task' = None
    /\ pubsub_subscribe_mode' = FALSE
    /\ pubsub_subscribe_channel' = <<>>
    /\ pubsub_subscribe_input' = <<>>
    /\ pubsub_messages' = <<>>
    /\ accepted' = ClearAccepted("pubsub")
    /\ pc' = "drain" /\ io' = <<>>
    /\ UNCHANGED <<mode, active_resource, should_quit, serverVars, keyVars,
                   pageVars, monitorVars, streamVars, pubsub_channels, rx, db, uri,
                   masked_uri,
                   handled, steps, run, refilled>>
    /\ UNCHANGED <<info_search_active, pending_action>>

\* Enter: subscribe to the channel typed, once
SubscribeEnter ==
    /\ SubscribeKeys
    /\ IF pubsub_subscribe_channel = <<>> /\ pubsub_subscribe_input # <<>>
       THEN /\ Len(tasks) < MaxTasks
            /\ pubsub_subscribe_channel' = pubsub_subscribe_input
            /\ pubsub_subscribe_input' = <<>>
            /\ pubsub_messages' = <<>>
            /\ accepted' = ClearAccepted("pubsub")
            /\ tasks' = Spawned(tasks, Task("pubsub", <<>>, pubsub_subscribe_input))
            /\ handled' = Append(handled, 0)
            /\ pubsub_task' = Len(tasks) + 1
       ELSE UNCHANGED <<pubsub_subscribe_channel, pubsub_subscribe_input,
                        pubsub_messages, accepted, tasks, handled, pubsub_task>>
    /\ pc' = "drain" /\ io' = <<>>
    /\ UNCHANGED <<mode, active_resource, should_quit, serverVars, keyVars,
                   pageVars, monitorVars, streamVars, pubsub_subscribe_mode,
                   pubsub_channels, rx, db, uri,
                   masked_uri, steps, run, refilled>>
    /\ UNCHANGED <<info_search_active, pending_action>>

\* Backspace in the subscribe input
SubscribeBackspace ==
    /\ SubscribeKeys
    /\ pubsub_subscribe_input' =
           IF pubsub_subscribe_channel = <<>> THEN pop(pubsub_subscribe_input)
           ELSE pubsub_subscribe_input
    /\ pc' = "drain" /\ io' = <<>>
    /\ UNCHANGED <<mode, active_resource, should_quit, serverVars, keyVars,
                   pageVars, monitorVars, streamVars, pubsub_subscribe_mode,
                   pubsub_subscribe_channel, pubsub_messages, pubsub_task,
                   pubsub_channels, rx, tasks, db, uri, masked_uri, histVars>>
    /\ UNCHANGED <<info_search_active, pending_action>>

\* a character typed into the subscribe input (Ctrl-C types 'c' and quits)
SubscribeChar(ch, ctrl) ==
    /\ SubscribeKeys
    /\ ctrl => ch = "c"
    /\ Len(pubsub_subscribe_input) < MaxInput
    /\ should_quit' = (should_quit \/ ctrl)
    /\ pubsub_subscribe_input' =
           IF pubsub_subscribe_channel = <<>>
           THEN Append(pubsub_subscribe_input, ch)
           ELSE pubsub_subscribe_input
    /\ pc' = "drain" /\ io' = <<>>
    /\ UNCHANGED <<mode, active_resource, serverVars, keyVars, pageVars,
                   monitorVars, streamVars, pubsub_subscribe_mode,
                   pubsub_subscribe_channel, pubsub_messages, pubsub_task,
                   pubsub_channels, rx, tasks, db, uri, masked_uri, histVars>>
    /\ UNCHANGED <<info_search_active, pending_action>>

(* ------------------------------ the drain ------------------------------ *)
\* App::update_server_info: the first server of that name gets its info
update_server_info(svs, name) ==
    LET hits == {i \in 1..Len(svs) : svs[i].name = name}
    IN  IF hits = {} THEN svs
        ELSE LET first == CHOOSE i \in hits : \A j \in hits : i <= j
             IN  [svs EXCEPT ![first].info = TRUE]

Entry(e) == [src |-> e.src, n |-> e.n, arg |-> e.arg]

\* AppEvent::Progress, AppEvent::ServerInfoDetected
OnProgress(e) ==
    /\ e.type \in {"Progress", "ServerInfoDetected"}
    /\ servers' = IF e.type = "ServerInfoDetected"
                  THEN update_server_info(servers, e.arg[1]) ELSE servers
    /\ io' = <<>>
    /\ UNCHANGED <<mode, active_resource, should_quit, connection, current_server,
                   selected_server_index, keyVars, pageVars, monitorVars,
                   streamVars, pubsubVars, tasks, accepted>>

\* a faulty handler, used to test the fall back to the servers list: a failed
\* connection leaves the view that was active
OnConnectStay(e) ==
    /\ e.type = "Connect"
    /\ \/ /\ connection' = FALSE
          /\ mode' = "Normal"
          /\ io' = <<>>
          /\ UNCHANGED <<active_resource, current_server, keyVars, pageVars>>
       \/ /\ connection' = TRUE
          /\ \E o \in fetch_keys(TRUE, cursor, <<>>, filter_text,
                                 selected_key_index) :
                /\ Fetched(o)
                /\ mode' = "Normal"
                /\ active_resource' = IF o.ok THEN active_resource ELSE "servers"
                /\ current_server' = IF o.ok THEN current_server ELSE NoServer
          /\ UNCHANGED <<filter_text, filter_active, cursor, cursor_stack>>
    /\ UNCHANGED <<should_quit, servers, selected_server_index, monitorVars,
                   streamVars, pubsubVars, tasks, accepted>>

\* AppEvent::Connect: App::connect, then fetch_keys(None); any failure leads
\* back to the servers list
OnConnect(e) ==
    /\ e.type = "Connect"
    /\ \/ /\ connection' = FALSE
          /\ mode' = "Normal" /\ active_resource' = "servers"
          /\ current_server' = NoServer
          /\ io' = <<>>
          /\ UNCHANGED <<keyVars, pageVars>>
       \/ /\ connection' = TRUE
          /\ \E o \in fetch_keys(TRUE, cursor, <<>>, filter_text,
                                 selected_key_index) :
                /\ Fetched(o)
                /\ mode' = "Normal"
                /\ active_resource' = IF o.ok THEN active_resource ELSE "servers"
                /\ current_server' = IF o.ok THEN current_server ELSE NoServer
          /\ UNCHANGED <<filter_text, filter_active, cursor, cursor_stack>>
    /\ UNCHANGED <<should_quit, servers, selected_server_index, monitorVars,
                   streamVars, pubsubVars, tasks, accepted>>

\* AppEvent::MonitorCommand
OnMonitorCommand(e) ==
    /\ e.type = "MonitorCommand"
    /\ IF monitor_active
       THEN /\ monitor_entries' = ring_insert(monitor_entries, Entry(e))
            /\ accepted' = [accepted EXCEPT !.monitor = Append(@, Entry(e))]
            /\ selected_monitor_index' =
                   IF selected_monitor_index = 0 /\ monitor_scroll = 0
                   THEN 0 ELSE selected_monitor_index + 1
            /\ monitor_scroll' =
                   IF selected_monitor_index = 0 /\ monitor_scroll = 0
                   THEN 0 ELSE monitor_scroll
       ELSE UNCHANGED <<monitor_entries, accepted, selected_monitor_index,
                        monitor_scroll>>
    /\ io' = <<>>
    /\ UNCHANGED <<mode, active_resource, should_quit, serverVars, keyVars,
                   pageVars, monitor_active, monitor_task, streamVars,
                   pubsubVars, tasks>>

\* AppEvent::PubSubMessage
OnPubSubMessage(e) ==
    /\ e.type = "PubSubMessage"
    /\ IF pubsub_subscribe_mode /\ pubsub_subscribe_channel # <<>>
       THEN /\ pubsub_messages' = ring_insert(pubsub_messages, Entry(e))
            /\ accepted' = [accepted EXCEPT !.pubsub = Append(@, Entry(e))]
       ELSE UNCHANGED <<pubsub_messages, accepted>>
    /\ io' = <<>>
    /\ UNCHANGED <<mode, active_resource, should_quit, serverVars, keyVars,
                   pageVars, monitorVars, streamVars, pubsub_subscribe_mode,
                   pubsub_subscribe_channel, pubsub_subscribe_input, pubsub_task,
                   pubsub_channels, tasks>>

\* a faulty handler, used to test the buffers of the stopped collectors: the
\* record is kept whether the consumer is active or not
OnStreamMessageAlways(e) ==
    /\ e.type = "StreamMessage"
    /\ stream_messages' = ring_insert(stream_messages, Entry(e))
    /\ accepted' = [accepted EXCEPT !.stream = Append(@, Entry(e))]
    /\ io' = <<>>
    /\ UNCHANGED <<mode, active_resource, should_quit, serverVars, keyVars,
                   pageVars, monitorVars, streams, selected_stream_index,
                   stream_active, stream_task, pubsubVars, tasks>>

\* AppEvent::StreamMessage
OnStreamMessage(e) ==
    /\ e.type = "StreamMessage"
    /\ IF stream_active
       THEN /\ stream_messages' = ring_insert(stream_messages, Entry(e))
            /\ accepted' = [accepted EXCEPT !.stream = Append(@, Entry(e))]
       ELSE UNCHANGED <<stream_messages, accepted>>
    /\ io' = <<>>
    /\ UNCHANGED <<mode, active_resource, should_quit, serverVars, keyVars,
                   pageVars, monitorVars, streams, selected_stream_index,
                   stream_active, stream_task, pubsubVars, tasks>>

\* one turn of the drain loop with an event on the channel: rx.try_recv() is
\* Ok(event) and the event is handled
DrainOne ==
    /\ pc = "drain" /\ rx # <<>>
    /\ LET e == try_recv(rx)
       IN  /\ rx' = after_recv(rx)
           /\ handled' = [handled EXCEPT ![e.src] = e.n]
           /\ \/ OnProgress(e)
              \/ OnConnect(e)
              \/ OnMonitorCommand(e)
              \/ OnPubSubMessage(e)
              \/ OnStreamMessage(e)
    /\ UNCHANGED <<pc, db, uri, masked_uri, steps, run, refilled>>
    /\ UNCHANGED <<info_search_active, pending_action>>

\* rx.try_recv() is Err: the drain ends; should_quit breaks the loop and the
\* cleanup stops the three collectors
DrainEnd ==
    /\ pc = "drain" /\ rx = <<>>
    /\ io' = <<>>
    /\ IF should_quit
       THEN /\ pc' = "done"
            /\ \E t1 \in AbortOutcomes(tasks, monitor_task) :
               \E t2 \in AbortOutcomes(t1, stream_task) :
               \E t3 \in AbortOutcomes(t2, pubsub_task) : tasks' = t3
            /\ monitor_active' = FALSE /\ monitor_task' = None
            /\ monitor_entries' = <<>>
            /\ stream_active' = FALSE /\ stream_task' = None
            /\ stream_messages' = <<>>
            /\ pubsub_task' = None
            /\ accepted' = [accepted EXCEPT !.monitor = <<>>, !.stream = <<>>]
            /\ UNCHANGED <<mode, active_resource, should_quit, serverVars, keyVars,
                           pageVars, selected_monitor_index, monitor_scroll,
                           streams, selected_stream_index, pubsub_subscribe_mode,
                           pubsub_subscribe_channel, pubsub_subscribe_input,
                           pubsub_messages, pubsub_channels>>
       ELSE /\ pc' = "input"
            /\ UNCHANGED <<appVars, tasks, accepted>>
    /\ refilled' = FALSE
    /\ UNCHANGED <<rx, db, uri, masked_uri, handled, steps, run>>
    /\ UNCHANGED <<info_search_active, pending_action>>


(* --------------------------- specifications ---------------------------- *)
TaskStep(t, lim) ==
    \/ ConnSend(t)
    \/ CollectorRead(t, lim)
    \/ CollectorSend(t)
    \/ CollectorExit(t)
    \/ CollectorCancelled(t)

Next ==
    \/ Tick
    \/ KeyCtrlC
    \/ KeyQ
    \/ KeyColon
    \/ ResourcesEsc
    \/ \E r \in Resources : ResourcesEnter(r)
    \/ KeyDown
    \/ KeyUp
    \/ KeyR
    \/ KeyEsc
    \/ \E ctrl \in BOOLEAN : KeyC(ctrl)
    \/ KeyEnterServers
    \/ KeyS
    \/ SubscribeEsc
    \/ SubscribeEnter
    \/ SubscribeBackspace
    \/ \E ch \in Typed, ctrl \in BOOLEAN : SubscribeChar(ch, ctrl)
    \/ DrainOne
    \/ DrainEnd
    \/ \E t \in TaskIds : TaskStep(t, MaxEvents)

Spec == Init /\ [][Next]_vars


\* the key browser: the views without a collector, the page turns, the
\* filter and the search input
KeysViews == {"keys", "servers", "info"}

NextKeys ==
    \/ Tick
    \/ KeyCtrlC
    \/ KeyQ
    \/ KeyColon
    \/ ResourcesEsc
    \/ \E r \in KeysViews : ResourcesEnter(r)
    \/ KeyR
    \/ KeyNextPage
    \/ KeyPrevPage
    \/ KeySlash
    \/ InfoSearchClose
    \/ \E ctrl \in BOOLEAN : InfoSearchEdit(ctrl)
    \/ FilterEnter
    \/ FilterEsc
    \/ FilterBackspace
    \/ \E ch \in Typed, ctrl \in BOOLEAN : FilterChar(ch, ctrl)
    \/ DrainOne
    \/ DrainEnd
    \/ \E t \in TaskIds : ConnSend(t)

SpecKeys == InitKeys /\ [][NextKeys]_vars

\* the key browser with the selection: moves in the list, page turns and the
\* filter input
NextSelect ==
    \/ Tick
    \/ KeyDown
    \/ KeyUp
    \/ KeyHome
    \/ KeyEnd
    \/ KeyR
    \/ KeyNextPage
    \/ KeyPrevPage
    \/ KeySlash
    \/ FilterEnter
    \/ FilterEsc
    \/ FilterBackspace
    \/ \E ch \in Typed, ctrl \in BOOLEAN : FilterChar(ch, ctrl)
    \/ DrainOne
    \/ DrainEnd
    \/ \E t \in TaskIds : ConnSend(t)

SpecSelect == InitKeys /\ [][NextSelect]_vars

\* one collector and the update loop, the collector running ahead of the loop
\* until the channel is full
NextBus ==
    \/ Tick
    \/ DrainOne
    \/ DrainEnd
    \/ \E t \in TaskIds : CollectorRead(t, BusCapacity + MaxBurst)
    \/ \E t \in TaskIds : CollectorSend(t)

SpecBus == InitOneCollector /\ [][NextBus]_vars

\* the same with the 'q' key, and with the scheduling the runtime gives: the
\* poll of the loop returns at the latest when the tick runs out, the loop
\* goes on to the drain and through it, and a task whose send has room is
\* polled again
NextBusFair ==
    \/ Tick
    \/ KeyQ
    \/ DrainOne
    \/ DrainEnd
    \/ \E t \in TaskIds : CollectorRead(t, BusCapacity + MaxBurst)
    \/ \E t \in TaskIds : CollectorSend(t)

SpecBusFair ==
    /\ InitOneCollector /\ [][NextBusFair]_vars
    /\ WF_vars(Tick) /\ WF_vars(DrainOne) /\ WF_vars(DrainEnd)
    /\ WF_vars(\E t \in TaskIds : CollectorSend(t))

\* one collector and the update loop until the buffer of the view overflows,
\* the collector at most MaxBurst events ahead of the loop and the view
\* refreshed ('R') only until the collector has read MaxBurst events
NextRing ==
    \/ Tick
    \/ EventsRead <= MaxBurst /\ KeyR
    \/ DrainOne
    \/ DrainEnd
    \/ \E t \in TaskIds :
          Len(rx) < MaxBurst /\ CollectorRead(t, RingCapacity + MaxBurst)
    \/ \E t \in TaskIds : CollectorSend(t)

SpecRing == InitOneCollector /\ [][NextRing]_vars

\* the monitor view with its collector running: the entries arrive, the user
\* moves the selection and refreshes the view
NextScroll ==
    \/ Tick
    \/ KeyDown
    \/ KeyUp
    \/ KeyR
    \/ DrainOne
    \/ DrainEnd
    \/ \E t \in TaskIds : CollectorRead(t, MaxEntries)
    \/ \E t \in TaskIds : CollectorSend(t)

SpecScroll == InitCollector("monitor") /\ [][NextScroll]_vars

\* the dialogs: the confirmation of a deletion (Ctrl-D) and the server dialog
\* ('a'), from the views the selector leads to, with the connection to a
\* server chosen in the servers view
DialogViews == {"keys", "servers", "monitor"}

NextDialogs ==
    \/ Tick
    \/ KeyCtrlC
    \/ KeyColon
    \/ \E r \in DialogViews : ResourcesEnter(r)
    \/ KeyDown
    \/ KeyCtrlD
    \/ KeyA
    \/ ServerDialogEsc
    \/ ConfirmEsc
    \/ ConfirmToggle
    \/ ConfirmEnter
    \/ KeyEnterServers
    \/ DrainOne
    \/ DrainEnd
    \/ \E t \in TaskIds : ConnSend(t)

SpecDialogs == (InitKeys \/ InitSetup) /\ [][NextDialogs]_vars

\* the URIs are written to the log or the description of a server: mask_uri
\* is applied to each
MaskUris ==
    /\ uri # <<>> /\ masked_uri = <<>>
    /\ masked_uri' = [i \in 1..Len(uri) |-> mask_uri(uri[i])]
    /\ UNCHANGED <<appVars, rx, tasks, pc, db, uri, io, histVars>>

NextMask == MaskUris

SpecMask == InitMask /\ [][NextMask]_vars

\* the servers of the configuration: the servers view, the dialog that adds a
\* server, the confirmation that deletes one, and the connection tasks
ServerViews == {"keys", "servers"}

NextServers ==
    \/ Tick
    \/ KeyColon
    \/ \E r \in ServerViews : ResourcesEnter(r)
    \/ KeyDown
    \/ KeyUp
    \/ KeyCtrlD
    \/ KeyA
    \/ ServerDialogEsc
    \/ \E name \in DialogNames, saved, uri_ok \in BOOLEAN :
           ServerDialogEnter(name, saved, uri_ok)
    \/ ConfirmEsc
    \/ ConfirmToggle
    \/ ConfirmEnter
    \/ KeyEnterServers
    \/ DrainOne
    \/ DrainEnd
    \/ \E t \in TaskIds : ConnSend(t)

SpecServers == (InitKeys \/ InitSetup) /\ [][NextServers]_vars

\* the same under the scheduling of the program: the loop goes round (the poll
\* times out, the channel is drained to its end) and tokio runs a connection
\* task that can send
SpecServersFair ==
    /\ SpecServers
    /\ WF_vars(Tick) /\ WF_vars(DrainOne) /\ WF_vars(DrainEnd)
    /\ WF_vars(\E t \in TaskIds : ConnSend(t))

\* the tasks and the update loop: the views whose collector is started from
\* the selector (monitor) or by 'c' (streams), and the servers view, from
\* which 'c' starts a connection task
TaskViews == {"keys", "servers", "monitor", "streams"}

NextTasks ==
    \/ Tick
    \/ KeyColon
    \/ \E r \in TaskViews : ResourcesEnter(r)
    \/ KeyEsc
    \/ \E ctrl \in BOOLEAN : KeyC(ctrl)
    \/ DrainOne
    \/ DrainEnd
    \/ \E t \in TaskIds : TaskStep(t, MaxEvents)

SpecTasks == Init /\ [][NextTasks]_vars

\* the monitor reader in full
MonitorStep(t) ==
    \/ MonitorNoConnection(t)
    \/ MonitorHandshake(t)
    \/ \E l \in MonitorLines : MonitorReadLine(t, l)
    \/ MonitorClosed(t)
    \/ CollectorSend(t)
    \/ CollectorCancelled(t)

\* the monitor reader and the update loop: the lines of the monitor
\* connection are read, parsed, sent and shown, until the reader returns or
\* the user goes to the keys view
NextParse ==
    \/ Tick
    \/ KeyColon
    \/ ResourcesEnter("keys")
    \/ DrainOne
    \/ DrainEnd
    \/ \E t \in TaskIds : MonitorStep(t)

SpecParse == InitCollector("monitor") /\ [][NextParse]_vars

\* one stream consumer in full and the update loop in the streams view, where
\* Esc stops the consumer
StreamStep(t) ==
    \/ StreamNoConnection(t)
    \/ \E res \in GroupResults : StreamGroupCreate(t, res)
    \/ \E k \in 0..MaxBatch : StreamRead(t, k)
    \/ \E timed_out \in BOOLEAN : StreamReadError(t, timed_out)
    \/ StreamSend(t)
    \/ StreamAck(t)
    \/ CollectorCancelled(t)

NextStream ==
    \/ Tick
    \/ KeyEsc
    \/ DrainOne
    \/ DrainEnd
    \/ \E t \in TaskIds : StreamStep(t)

SpecStream == InitCollector("stream") /\ [][NextStream]_vars

\* the list of streams: the view is selected, the selection moved and the
\* list fetched again
StreamListViews == {"keys", "streams"}

NextStreamList ==
    \/ Tick
    \/ KeyColon
    \/ ResourcesEsc
    \/ \E r \in StreamListViews : ResourcesEnter(r)
    \/ KeyDown
    \/ KeyUp
    \/ KeyR
    \/ DrainOne
    \/ DrainEnd
    \/ \E t \in TaskIds : ConnSend(t)

SpecStreamList == InitStreamList /\ [][NextStreamList]_vars

\* the lists of the auxiliary resources: the views are selected and
\* refreshed against a server that has a subscribed channel
AuxViews == {"keys", "streams", "pubsub", "info"}

NextAux ==
    \/ Tick
    \/ KeyColon
    \/ ResourcesEsc
    \/ \E r \in AuxViews : ResourcesEnter(r)
    \/ KeyR
    \/ DrainOne
    \/ DrainEnd
    \/ \E t \in TaskIds : ConnSend(t)

SpecAux == InitKeys /\ [][NextAux]_vars

(* ------------------------------ properties ----------------------------- *)
\* the entries of the three buffers that came from task t
FromTask(buf, t) == {i \in 1..Len(buf) : buf[i].src = t}

\* C1: once a collector has been cancelled (its buffer is cleared by the same
\* handler), no event of that cancelled instance is inserted into the buffer
\* of its resource any more, also when a replacement has been started and the
\* cancelled task still completes a send
NoEventOfCancelledCollector ==
    \A t \in TaskIds :
        tasks[t].cancelled =>
            /\ FromTask(monitor_entries, t) = {}
            /\ FromTask(pubsub_messages, t) = {}
            /\ FromTask(stream_messages, t) = {}

\* C2: at most one collector task of each kind is live (started, neither
\* cancelled nor returned) in every reachable state
OneLiveCollectorPerKind ==
    \A kind \in Collectors : Cardinality(Live(kind)) <= 1

\* C8: the update loop handles the events of one task in the order the task
\* published them: the event handled is always the task's next one, whatever
\* other producers put on the channel in between
PerProducerFifo ==
    [][\A t \in TaskIds :
          handled'[t] # handled[t] => handled'[t] = handled[t] + 1]_vars

\* C8, the case: the channel holds two events of one task with an event of
\* another task between them, and the loop is draining
InterleavedOnBus ==
    /\ pc = "drain"
    /\ \E i, j, k \in 1..Len(rx) :
          /\ i < j /\ j < k
          /\ rx[i].src = rx[k].src
          /\ rx[j].src # rx[i].src

\* C9: a step of a task (collector or connection task) leaves every field of
\* the application state and the position of the update loop unchanged; all
\* it can do to the rest of the system is append one event to the channel
TaskStepFrame ==
    [][(\E t \in TaskIds : TaskStep(t, MaxEvents)) =>
          /\ UNCHANGED <<appVars, pc, io>>
          /\ \/ rx' = rx
             \/ /\ Len(rx') = Len(rx) + 1
                /\ SubSeq(rx', 1, Len(rx)) = rx]_vars

\* C9, the case: a collector has sent an event while the application shows
\* its view and holds data of its own
CollectorHasSent ==
    /\ \E t \in TaskIds : tasks[t].kind \in Collectors /\ tasks[t].sent > 0
    /\ mode = "Normal" /\ connection
    /\ monitor_active \/ stream_active \/ pubsub_subscribe_channel # <<>>

\* C3: the length of cursor_stack is the number of next_page calls that
\* advanced minus the number of prev_page calls that undid a step, counted
\* since the last reset of the pagination
StackCountsPageTurns ==
    Len(cursor_stack) = steps.fwd - steps.back

\* C3, the case: pages were turned forward twice and back once
PagesTurnedBothWays ==
    steps.fwd = 2 /\ steps.back = 1 /\ Len(cursor_stack) = 1

\* the first of the latest run.p next_page calls
RunFirst == Len(run.starts) - run.p + 1

\* C4 as stated: after N consecutive next_page calls and N consecutive
\* prev_page calls the cursor is what it was before the first of those
\* next_page calls, for every N and every state
RoundTripAlways ==
    run.p >= 1 => cursor = run.starts[RunFirst]

\* C4, amended: the cursor is back at its value before the first of the N
\* next_page calls when each of them advanced (next_cursor # 0), or when the
\* cursor_stack was empty before the first of them (the value is then 0)
RoundTripWhenAdvanced ==
    (/\ run.p >= 1
     /\ \/ \A j \in RunFirst..Len(run.starts) : run.ok[j].adv
        \/ run.ok[RunFirst].emp)
    => cursor = run.starts[RunFirst]

\* C4, the case: two pages forward, each call advancing, and two pages back
TwoForwardTwoBack ==
    /\ run.p = 2 /\ Len(run.starts) = 2
    /\ run.ok[1].adv /\ run.ok[2].adv
    /\ run.starts[2] # run.starts[1]
    /\ cursor = run.starts[1]

\* C5: a next_page call made with next_cursor = 0 sends no request and leaves
\* cursor, next_cursor, cursor_stack, all_keys and scan_result as they are
NextPageAtEndIsNoOp ==
    [][(KeyNextPage /\ next_cursor = 0) =>
          /\ io' = <<>>
          /\ UNCHANGED <<cursor, next_cursor, cursor_stack, all_keys,
                         scan_result>>]_vars

\* C5, the case: a forward step ended with next_cursor = 0 and the next_page
\* call that followed it did not advance
NextPageAfterLastPage ==
    /\ next_cursor = 0 /\ cursor # 0 /\ connection
    /\ \E j \in 2..Len(run.ok) : run.ok[j - 1].adv /\ ~run.ok[j].adv
    /\ run.p = 0

\* the key k contains the text f at some offset, letters compared without case
ContainsIgnoringCase(k, f) ==
    \E off \in 0..Len(k) :
        /\ off + Len(f) <= Len(k)
        /\ \A j \in 1..Len(f) : LowerChar(k[off + j]) = LowerChar(f[j])

\* the positions of keys that hold the text f, in order
Matching(keys, f) == {i \in 1..Len(keys) : ContainsIgnoringCase(keys[i], f)}

\* s is the sub-sequence of keys at the positions in P
IsSubSeqAt(s, keys, P) ==
    /\ Len(s) = Cardinality(P)
    /\ \A i \in P : s[Cardinality({j \in P : j <= i})] = keys[i]

\* C10: typing or deleting a character of the filter text sends no request,
\* leaves all_keys, cursor, next_cursor, cursor_stack and total_keys as they
\* are, and makes scan_result the sub-sequence of all_keys whose keys hold the
\* new filter text, letters compared without case
FilterEditIsLocal ==
    [][(FilterBackspace \/ \E ch \in Typed, ctrl \in BOOLEAN : FilterChar(ch, ctrl))
          =>
          /\ io' = <<>>
          /\ UNCHANGED <<all_keys, cursor, next_cursor, cursor_stack, total_keys>>
          /\ IsSubSeqAt(scan_result', all_keys', Matching(all_keys', filter_text'))
      ]_vars

\* C10, the case: the filter text was edited and keeps some keys of the page,
\* one of them by a letter of the other case, and drops others
FilterKeepsSomeKeys ==
    /\ filter_active /\ filter_text = <<"a">>
    /\ all_keys = <<KeyAb, KeyBB, KeyBa>>
    /\ scan_result = <<KeyAb, KeyBa>>
    /\ cursor # 0

\* the buffer buf holds the latest min(k, RingCapacity) of the k entries acc
\* accepted since it was cleared, the latest first
HoldsLatest(buf, acc) ==
    /\ Len(buf) = (IF Len(acc) < RingCapacity THEN Len(acc) ELSE RingCapacity)
    /\ \A i \in 1..Len(buf) : buf[i] = acc[Len(acc) - i + 1]

\* C6: each of the three buffers never holds more than RingCapacity entries
\* and holds exactly the latest min(k, RingCapacity) of the k events accepted
\* since it was last cleared, the most recent first
RingBuffersHoldLatest ==
    /\ Len(monitor_entries) <= RingCapacity
    /\ Len(pubsub_messages) <= RingCapacity
    /\ Len(stream_messages) <= RingCapacity
    /\ HoldsLatest(monitor_entries, accepted.monitor)
    /\ HoldsLatest(pubsub_messages, accepted.pubsub)
    /\ HoldsLatest(stream_messages, accepted.stream)

\* C6, the case: the monitor buffer was cleared after its first entries and
\* has overflowed since, the oldest entry accepted after the clear evicted
MonitorBufferOverflowed ==
    /\ Len(accepted.monitor) > RingCapacity
    /\ accepted.monitor[1].n > 1
    /\ Len(monitor_entries) = RingCapacity
    /\ monitor_entries[RingCapacity] = accepted.monitor[2]

\* the numbers of the events of task t on the channel, in channel order
RECURSIVE OnBus(_, _)
OnBus(q, t) ==
    IF q = <<>> THEN <<>>
    ELSE (IF Head(q).src = t THEN <<Head(q).n>> ELSE <<>>) \o OnBus(Tail(q), t)

\* C7: the channel never holds more than BusCapacity events, and every event
\* whose send completed is either handled already or on the channel exactly
\* once: none is dropped by a send that found the channel full, none is lost
\* or received twice
BusBoundedAndLossless ==
    /\ Len(rx) <= BusCapacity
    /\ \A t \in TaskIds :
          /\ handled[t] <= tasks[t].sent
          /\ OnBus(rx, t) = [i \in 1..(tasks[t].sent - handled[t]) |-> handled[t] + i]

\* C7, the case: the channel is full and a collector holds an event it cannot
\* send until the loop has received one
PublisherWaitsOnFullBus ==
    /\ Len(rx) = BusCapacity
    /\ \E t \in TaskIds : tasks[t].kind \in Collectors /\ tasks[t].pend
    /\ pc = "input"

\* the requests a fetch_keys call sends on a connection: DBSIZE, then one SCAN
KeysRequests(cur, pattern) == <<[cmd |-> "DBSIZE"], ScanRequest(cur, pattern)>>

\* C11: Enter in the filter input sets cursor to 0 and empties cursor_stack
\* before it fetches, and fetches once: on a connection the requests are one
\* DBSIZE and one SCAN at cursor 0 whose pattern is made of filter_text
\* (without a connection fetch_keys returns at once and nothing is sent)
FilterCommitFetchesFirstPage ==
    [][FilterEnter =>
          /\ cursor' = 0 /\ cursor_stack' = <<>> /\ ~filter_active'
          /\ filter_text' = filter_text
          /\ io' = IF connection THEN KeysRequests(0, Some(filter_text))
                   ELSE <<>>]_vars

\* C11, the case: the text "a" was committed on a connection and the one
\* SCAN of the commit asked for the first page of the keys that hold it
FilterCommitted ==
    /\ pc = "drain" /\ ~filter_active /\ filter_text = <<"a">>
    /\ io = KeysRequests(0, Some(<<"a">>))
    /\ cursor = 0 /\ cursor_stack = <<>> /\ steps = NoSteps
    /\ scan_result = <<KeyAb, KeyBa>>

\* C12: when the keys view is selected in the resource selector from another
\* view, and when the keys are fetched after a connection was made, the SCAN
\* is sent with cursor 0 and cursor_stack is empty
KeysFetchedFromFirstPage ==
    [][(\/ ResourcesEnter("keys") /\ active_resource # "keys"
        \/ DrainOne /\ Head(rx).type = "Connect")
       =>
          /\ cursor_stack' = <<>>
          /\ \A i \in 1..Len(io') : io'[i].cmd = "SCAN" => io'[i].cursor = 0]_vars

\* C20: prev_page with an empty cursor_stack sends no request and leaves every
\* field of the application as it is; with a non-empty one it removes the top
\* element and nothing else, makes it the cursor and fetches once with it: on
\* a connection one DBSIZE and one SCAN at that cursor
PrevPagePopsAndFetches ==
    [][KeyPrevPage =>
          IF cursor_stack = <<>>
          THEN io' = <<>> /\ UNCHANGED appVars
          ELSE /\ cursor' = cursor_stack[Len(cursor_stack)]
               /\ cursor_stack' = SubSeq(cursor_stack, 1, Len(cursor_stack) - 1)
               /\ io' = IF connection
                        THEN KeysRequests(cursor_stack[Len(cursor_stack)],
                                          page_pattern(filter_text))
                        ELSE <<>>]_vars

\* C20, the case: two pages forward and one back, the cursor popped being the
\* one of the SCAN just sent and one element being left on the stack
PrevPageFetchedPoppedCursor ==
    /\ pc = "drain" /\ run.p = 1 /\ Len(run.starts) = 2
    /\ Len(cursor_stack) = 1
    /\ cursor = run.starts[2] /\ cursor # 0
    /\ io = KeysRequests(cursor, page_pattern(filter_text))

\* C13: for every well-formed line "+<seconds>.<micros> [<db> <client>]
\* <command>" the monitor reader has read, the entry parsed from it has that
\* db, that client address and that command text
WellFormedLineParsed ==
    \A t \in TaskIds, d \in Dbs, c \in Clients, cmd \in Commands :
        (/\ tasks[t].kind = "monitor"
         /\ tasks[t].line = MonitorLine(<<"1", ".", "0">>, d, c, cmd))
        => /\ tasks[t].arg # <<>>
           /\ tasks[t].arg[1].db = d
           /\ tasks[t].arg[1].client = c
           /\ tasks[t].arg[1].command = cmd

\* the token holds neither '[' nor ']'
Bracketless(tok) == \A i \in 1..Len(tok) : tok[i] \notin {"[", "]"}

\* C14: a line the monitor reader has read that has fewer than three fields,
\* or whose second field holds no bracket marker, gives no entry: nothing is
\* parsed from it and the reader has no event to send
MalformedLineDropped ==
    \A t \in TaskIds :
        tasks[t].kind = "monitor" =>
            LET l == trim(tasks[t].line)
                parts == splitn(IF starts_with(l, "+") THEN Tail(l) ELSE l,
                                3, " ")
            IN  (Len(parts) < 3 \/ Bracketless(parts[2]))
                => tasks[t].arg = <<>> /\ ~tasks[t].pend

\* C15: a stream consumer never has acknowledged more records than it has
\* sent events for (the event of a record is on the channel before its XACK
\* is issued), and while it runs every record whose event was sent has been
\* acknowledged, except the one whose XACK is next; neither depends on
\* stream_active or on what the update loop did with the events
AckFollowsSend ==
    \A t \in TaskIds :
        tasks[t].kind = "stream" =>
            /\ tasks[t].acked <= tasks[t].sent
            /\ tasks[t].st = "run" =>
                   tasks[t].sent - tasks[t].acked
                       = (IF tasks[t].at = "ack" THEN 1 ELSE 0)

\* C15, the case: a record is acknowledged, its event is still on the channel
\* and was not handled, and the consumer has been stopped (stream_active is
\* false, the buffer empty): the handler will discard the event
AckedNeverShown ==
    \E t \in TaskIds :
        /\ tasks[t].kind = "stream" /\ tasks[t].acked = 1
        /\ tasks[t].cancelled /\ handled[t] = 0
        /\ \E i \in 1..Len(rx) : rx[i].src = t /\ rx[i].n = 1
        /\ ~stream_active /\ stream_messages = <<>>
        /\ pc = "drain"

\* C16: a stream consumer whose XGROUP CREATE failed with an error other than
\* "group already exists" emits no StreamMessage event: it has sent none and
\* holds none to send
GroupErrorEmitsNothing ==
    \A t \in TaskIds :
        (tasks[t].kind = "stream" /\ tasks[t].grp = "error")
        => tasks[t].sent = 0 /\ ~tasks[t].pend

\* C17: after a read error that is a polling timeout the consumer is still in
\* its poll loop; after any other read error it has returned; in both cases
\* the step puts nothing on the channel and leaves every field of the
\* application as it is (stream_active and stream_messages among them)
StreamReadErrorIsSilent ==
    [][\A t \in TaskIds :
          /\ StreamReadError(t, TRUE) =>
                 tasks'[t].st = "run" /\ tasks'[t].at = "poll"
          /\ StreamReadError(t, FALSE) => tasks'[t].st = "end"
          /\ (\E timed_out \in BOOLEAN : StreamReadError(t, timed_out)) =>
                 /\ UNCHANGED <<appVars, rx>>
                 /\ tasks'[t].sent = tasks[t].sent /\ ~tasks'[t].pend]_vars

\* C17, the case: the consumer the application holds as stream_task has
\* returned on a read error after it delivered a record; stream_active is
\* still true and the record still shown
StoppedLooksIdle ==
    \E t \in TaskIds :
        /\ stream_task = t /\ stream_active
        /\ tasks[t].kind = "stream" /\ tasks[t].st = "end"
        /\ ~tasks[t].cancelled /\ tasks[t].at = "poll"
        /\ tasks[t].polls >= 2 /\ tasks[t].acked >= 1
        /\ stream_messages # <<>>
        /\ pc = "input"

\* C18: when the update loop handles a Connect event and the connection
\* attempt fails (App::connect returns an error, no connection is held), the
\* handling ends in the server selection view: mode is Normal,
\* active_resource is "servers" and current_server is cleared
ConnectFailureBackToServers ==
    [][(DrainOne /\ Head(rx).type = "Connect" /\ ~connection')
       => /\ mode' = "Normal"
          /\ active_resource' = "servers"
          /\ current_server' = NoServer]_vars

\* C18, the case: a connection made from the servers view, after the first
\* one, has failed: the Connect event of the latest connection task was
\* handled, no connection is held and the servers view is shown
SecondConnectFailed ==
    /\ Len(tasks) >= 2
    /\ tasks[Len(tasks)].kind = "conn" /\ tasks[Len(tasks)].st = "end"
    /\ handled[Len(tasks)] = tasks[Len(tasks)].sent
    /\ ~connection
    /\ mode = "Normal" /\ active_resource = "servers"
    /\ current_server = NoServer
    /\ pc = "drain"

\* C19: a fetch of the stream list or of the pubsub channel list whose
\* request failed leaves the list held for that resource as it was
FailedFetchKeepsData ==
    [][(KeyR \/ \E r \in Resources : ResourcesEnter(r))
       => \A i \in 1..Len(io') :
              (io'[i].cmd \in {"KEYS", "PUBSUB CHANNELS"} /\ ~io'[i].ok)
              => UNCHANGED <<streams, pubsub_channels>>]_vars

NoEntryLine(l) ==
    LET tl == trim(l)
    IN  \/ ~starts_with(tl, "+")
        \/ Len(splitn(Tail(tl), 3, " ")) < 3

DrainPassIsBounded ==
    [][DrainEnd => ~refilled]_vars

\* C24: the update loop never waits on a network reply: no step of the loop
\* sends a request on the primary connection and takes its reply, every
\* network read being made by a collector task
LoopNeverAwaitsNetwork ==
    io = <<>>

\* the number of events the update loop has taken from the channel: the
\* events of a task are numbered from 1 and handled[t] is the last one taken
RECURSIVE TakenUpTo(_)
TakenUpTo(t) == IF t = 0 THEN 0 ELSE TakenUpTo(t - 1) + handled[t]

Taken == TakenUpTo(Len(handled))

\* the number of sends the collectors have completed
Sent == SumSent([t \in TaskIds |-> [tasks[t] EXCEPT !.pend = FALSE]],
                Len(tasks))

\* a collector holds an event and the channel is full
HeldByFullBus ==
    /\ Len(rx) = BusCapacity
    /\ \E t \in TaskIds : tasks[t].kind \in Collectors /\ tasks[t].pend

FlagsMatchView ==
    /\ monitor_active => active_resource = "monitor"
    /\ stream_active => active_resource = "streams"
    /\ pubsub_subscribe_mode => active_resource = "pubsub"

\* C26, the case: the user went from the monitor view, whose collector was
\* stopped, to the pubsub view and subscribed there
FlagsFollowedTheView ==
    /\ active_resource = "pubsub"
    /\ pubsub_subscribe_mode /\ pubsub_task # None
    /\ ~monitor_active /\ ~stream_active
    /\ \E t \in TaskIds : tasks[t].kind = "monitor" /\ tasks[t].cancelled

\* C27: when a monitor entry is accepted while the selection is away from
\* the top, selected_monitor_index grows by one, is a valid index of
\* monitor_entries afterwards and designates the entry it designated before
SelectionFollowsEntry ==
    [][(/\ DrainOne
        /\ Head(rx).type = "MonitorCommand" /\ monitor_active
        /\ ~(selected_monitor_index = 0 /\ monitor_scroll = 0)) =>
          /\ selected_monitor_index' = selected_monitor_index + 1
          /\ selected_monitor_index' < Len(monitor_entries')
          /\ selected_monitor_index < Len(monitor_entries)
          /\ monitor_entries'[selected_monitor_index' + 1]
                 = monitor_entries[selected_monitor_index + 1]]_vars

\* C28: Esc in the server dialog returns to normal mode when a server is
\* configured and quits only when none is
DialogEscBackToNormal ==
    [][ServerDialogEsc =>
          IF servers # <<>>
          THEN mode' = "Normal" /\ ~should_quit'
          ELSE should_quit']_vars

\* C29: Ctrl-D makes a pending action of type DeleteKey only in the keys view
DeleteKeyOnlyInKeysView ==
    [][(/\ KeyCtrlD
        /\ pending_action' # <<>>
        /\ pending_action'[1].action_type = "DeleteKey") =>
          active_resource = "keys"]_vars

\* a step that deletes: a DEL is sent or a server leaves the configuration
Deletes ==
    \/ Len(servers') < Len(servers)
    \/ io' # io /\ \E i \in 1..Len(io') : io'[i].cmd = "DEL"

\* C30: a key or a server is deleted only by Enter in the confirmation with
\* Yes selected; the confirmation opens with No selected; Esc and Enter on No
\* delete nothing; every step that leaves Confirm mode leaves pending_action
\* empty and the mode Normal
DeletionNeedsYes ==
    [][/\ Deletes =>
             /\ ConfirmEnter
             /\ mode = "Confirm" /\ pending_action # <<>>
             /\ pending_action[1].selected_yes
       /\ (mode # "Confirm" /\ mode' = "Confirm") =>
             /\ pending_action' # <<>>
             /\ ~pending_action'[1].selected_yes
       /\ (mode = "Confirm" /\ mode' # "Confirm") =>
             /\ pending_action' = <<>>
             /\ mode' = "Normal"]_vars

\* C30, the case: a key was deleted from the keys view by Ctrl-D, a move to
\* Yes and Enter, and the keys were fetched again
KeyDeletedAfterYes ==
    /\ pc = "drain" /\ mode = "Normal" /\ pending_action = <<>>
    /\ active_resource = "keys" /\ connection
    /\ Len(io) = 3 /\ io[1] = [cmd |-> "DEL", key |-> KeyAb]
    /\ io[3].cmd = "SCAN"

\* the event at the head of the channel belongs to a collector whose view
\* does not take it
HeadIsIgnored ==
    /\ rx # <<>>
    /\ \/ Head(rx).type = "MonitorCommand" /\ ~monitor_active
       \/ Head(rx).type = "StreamMessage" /\ ~stream_active
       \/ /\ Head(rx).type = "PubSubMessage"
          /\ ~(pubsub_subscribe_mode /\ pubsub_subscribe_channel # <<>>)

\* C31: a buffer holds entries only while its collector is marked active:
\* monitor_entries is empty when monitor_active is false, stream_messages is
\* empty when stream_active is false, pubsub_messages is empty unless
\* pubsub_subscribe_mode is set with a subscribed channel; and handling an
\* event whose collector is not active changes no field of the application
BuffersOnlyWhileActive ==
    /\ [](/\ ~monitor_active => monitor_entries = <<>>
          /\ ~stream_active => stream_messages = <<>>
          /\ pubsub_messages # <<>> =>
                 pubsub_subscribe_mode /\ pubsub_subscribe_channel # <<>>)
    /\ [][(DrainOne /\ HeadIsIgnored) => UNCHANGED appVars]_vars

\* C31, the case: the stream consumer was stopped after it had sent a record,
\* the record has been taken from the channel and the buffer is empty
StoppedConsumerShowsNothing ==
    /\ ~stream_active /\ stream_messages = <<>> /\ stream_task = None
    /\ active_resource = "streams" /\ pc = "drain" /\ rx = <<>>
    /\ \E t \in TaskIds :
           /\ tasks[t].kind = "stream" /\ tasks[t].cancelled
           /\ tasks[t].sent >= 1 /\ handled[t] = tasks[t].sent

\* C32: every message in pubsub_messages was received on the channel that
\* is subscribed now
MessagesOfSubscribedChannel ==
    \A i \in 1..Len(pubsub_messages) :
        pubsub_messages[i].arg = pubsub_subscribe_channel

\* C33: cursor_stack is empty exactly when the cursor is 0, and a non-empty
\* cursor_stack has 0 as its bottom element, whatever sequence of forward,
\* backward, filter, refresh and failing fetch steps was taken
StackMatchesCursor ==
    /\ (cursor_stack = <<>>) <=> (cursor = 0)
    /\ cursor_stack # <<>> => cursor_stack[1] = 0

\* two pages forward after a filter was committed
DeepStackAfterSteps ==
    /\ Len(cursor_stack) = 2 /\ cursor # 0 /\ cursor_stack[2] # 0
    /\ steps.fwd = 2 /\ filter_text # <<>> /\ pc = "drain"


\* a ']' or '[' step whose fetch_keys call returns the error of the SCAN
PageFetchFails ==
    /\ connection
    /\ \/ /\ KeyNextPage /\ next_cursor # 0
          /\ \E o \in fetch_keys(connection, next_cursor,
                                 page_pattern(filter_text), filter_text,
                                 selected_key_index) : ~o.ok /\ Fetched(o)
       \/ /\ KeyPrevPage /\ cursor_stack # <<>>
          /\ \E o \in fetch_keys(connection, popped(cursor_stack),
                                 page_pattern(filter_text), filter_text,
                                 selected_key_index) : ~o.ok /\ Fetched(o)

\* C34: when the fetch inside next_page or prev_page fails, cursor,
\* next_cursor and cursor_stack keep the values they had before the call
FailedPageFetchKeepsCursor ==
    [][PageFetchFails => UNCHANGED <<cursor, next_cursor, cursor_stack>>]_vars


\* C35: scan_result is the sub-sequence of all_keys whose keys contain
\* filter_text case-insensitively (all of all_keys when the text is empty),
\* also after Esc in the filter input, after '/', and after a fetch that
\* failed or was skipped
ScanResultIsFilteredKeys ==
    scan_result = apply_filter_scan(all_keys, filter_text)


\* C36: selected_key_index is an index of scan_result when scan_result is not
\* empty, and 0 when it is empty
SelectedKeyInRange ==
    IF scan_result # <<>>
    THEN selected_key_index < Len(scan_result)
    ELSE selected_key_index = 0

\* the last of three keys was selected and the filter text typed leaves two
SelectionClampedByFilter ==
    /\ filter_active /\ filter_text # <<>> /\ pc = "drain"
    /\ Len(all_keys) = 3 /\ Len(scan_result) = 2 /\ selected_key_index = 1


\* C37: selected_stream_index is an index of streams when streams is not
\* empty, also after the list was fetched again and came back shorter
SelectedStreamInRange ==
    streams # <<>> => selected_stream_index < Len(streams)


\* C38: after a confirmed server deletion selected_server_index is an index
\* of the servers left, when some are left, for every list add_server can
\* have produced
ServerSelectionAfterDelete ==
    [][(ConfirmEnter /\ servers' # servers /\ servers' # <<>>) =>
          selected_server_index' < Len(servers')]_vars


\* C39: Splash mode is always left eventually: whenever the mode is Splash a
\* connection task is pending or a Connect event is queued, and the handling
\* of every Connect event ends in Normal mode, so under fair scheduling the
\* mode does not stay Splash forever
SplashIsLeft ==
    /\ [](mode = "Splash" =>
            \/ \E t \in 1..MaxTasks :
                   t <= Len(tasks) /\ tasks[t].kind = "conn"
                                  /\ tasks[t].st = "run"
            \/ \E i \in 1..BusCapacity :
                   i <= Len(rx) /\ rx[i].type = "Connect")
    /\ [][(DrainOne /\ rx[1].type = "Connect") => mode' = "Normal"]_vars
    /\ (mode = "Splash") ~> (mode # "Splash")


\* C40: the text mask_uri returns does not depend on the password: for two
\* URIs that differ in the password only it returns the same text, which is
\* the URI with "****" in the place of the password, and no password of the
\* two (all are made of characters no other part holds) occurs in it
MaskHidesPassword ==
    (Len(uri) = 2 /\ masked_uri # <<>>) =>
        /\ masked_uri[1] = masked_uri[2]
        /\ \A x \in UriParts :
              (/\ uri[1] = AuthUri(x.scheme, x.user, x.pw1, x.host)
               /\ uri[2] = AuthUri(x.scheme, x.user, x.pw2, x.host)) =>
                  /\ masked_uri[1] = AuthUri(x.scheme, x.user, Stars, x.host)
                  /\ x.pw1 # <<>> => ~contains(masked_uri[1], x.pw1)
                  /\ x.pw2 # <<>> => ~contains(masked_uri[1], x.pw2)

\* two URIs with a user were masked, one password holding '@' and the other ':'
MaskedTwoPasswords ==
    /\ Len(uri) = 2 /\ masked_uri # <<>>
    /\ uri_password(uri[1]) = << <<"q", "@", "r">> >>
    /\ uri_password(uri[2]) = << <<"s", ":", "t">> >>
    /\ starts_with_str(uri[1], RedissScheme)
    /\ masked_uri[1] = RedissScheme \o <<"u", ":">> \o Stars \o <<"@", "h">>

=============================================================================
